---------------------------- MODULE Spec2Model ----------------------------
(***************************************************************************)
(* Drishyam3D: the GLTF ingestion pipeline (gltf-parser.js), the menu      *)
(* handlers that feed it (menu-handlers.js), the built-in shapes           *)
(* (geometry.js), the scene and its render chain (scene.js), the page      *)
(* script with its Run button and auto-refresh timer (main.js) and the     *)
(* editor tabs (editor.js).                                                *)
(*                                                                         *)
(* Variables: dec, glExt, ld - one parseGltf call; geo - the shape         *)
(* generators; pair - two calls on one WebGL context; ui - the menu        *)
(* handlers; sc - the scene; mn - the page script; ed - the editor tabs.   *)
(*                                                                         *)
(* Conventions of the model                                                *)
(*   - a JavaScript string is a sequence of one-character strings;         *)
(*   - `undefined' for a number is Absent (-1); `undefined' for a string   *)
(*     is the empty sequence where the code only tests truthiness;         *)
(*   - an ArrayBuffer is a sequence of bytes (0..255), a typed array is a  *)
(*     view record over it, its elements decoded little-endian;            *)
(*   - coordinates are carried in quarter units (Q == 4 stands for 1.0),   *)
(*     so that the halving of the bounds computation is exact.             *)
(***************************************************************************)
EXTENDS Integers, Sequences, FiniteSets, TLC

VARIABLES dec, glExt, ld, geo, ui, pair, sc, mn, ed

vars == <<dec, glExt, ld, geo, ui, pair, sc, mn, ed>>

Absent == 0 - 1

\* (x || 0) for an optional number
Or0(x) == IF x = Absent THEN 0 ELSE x

Max2(a, b) == IF a >= b THEN a ELSE b

Min2(a, b) == IF a <= b THEN a ELSE b

(***************************************************************************)
(* JavaScript strings                                                      *)
(***************************************************************************)
\* String.prototype.lastIndexOf(ch): 0-based index of the last ch, -1 if none
LastIndexOf(s, ch) ==
  LET hits == {i \in 1..Len(s) : s[i] = ch}
  IN IF hits = {} THEN -1 ELSE (CHOOSE i \in hits : \A j \in hits : j <= i) - 1

\* String.prototype.substring(a, b), 0-based, b exclusive
Substring(s, a, b) == SubSeq(s, a + 1, b)

\* String.prototype.endsWith(suffix)
EndsWith(s, suf) ==
  /\ Len(suf) <= Len(s)
  /\ SubSeq(s, Len(s) - Len(suf) + 1, Len(s)) = suf

\* String.prototype.includes(ch) for a single character
Includes(s, ch) == \E i \in 1..Len(s) : s[i] = ch

LowerChar(c) ==
  CASE c = "G" -> "g"
    [] c = "L" -> "l"
    [] c = "T" -> "t"
    [] c = "F" -> "f"
    [] c = "S" -> "s"
    [] OTHER -> c

\* String.prototype.toLowerCase()
ToLowerCase(s) == [i \in 1..Len(s) |-> LowerChar(s[i])]

\* path.split('/').pop(): the text after the last '/'
LastSegment(s) == Substring(s, LastIndexOf(s, "/") + 1, Len(s))

\* name.replace(/\.[^/.]+$/, ''): drop a trailing ".ext" (ext non-empty, no '/' or '.')
StripExtension(s) ==
  LET d == LastIndexOf(s, ".")
  IN IF d >= 0 /\ d + 1 < Len(s) /\ ~Includes(Substring(s, d + 1, Len(s)), "/")
       THEN Substring(s, 0, d)
       ELSE s

(***************************************************************************)
(* Typed arrays over an ArrayBuffer                                        *)
(***************************************************************************)
BYTE == 5120
UNSIGNED_BYTE == 5121
SHORT == 5122
UNSIGNED_SHORT == 5123
UNSIGNED_INT == 5125
FLOAT == 5126

\* BYTES_PER_ELEMENT of each typed array constructor
ElementSize(kind) ==
  CASE kind \in {"Int8", "Uint8"} -> 1
    [] kind \in {"Int16", "Uint16"} -> 2
    [] kind \in {"Uint32", "Float32"} -> 4
    [] OTHER -> 0

NoView(e) == [ok |-> FALSE, kind |-> "none", byteOffset |-> 0, length |-> 0, err |-> e]

\* new <kind>Array(buffer, byteOffset, length) with a numeric length:
\* RangeError unless the offset is a multiple of the element size and the
\* view ends inside the buffer (ECMAScript InitializeTypedArrayFromArrayBuffer).
NewTypedArray(kind, bufferData, byteOffset, length) ==
  IF byteOffset % ElementSize(kind) # 0
       \/ byteOffset + length * ElementSize(kind) > Len(bufferData)
    THEN NoView("RangeError")
    ELSE [ok |-> TRUE, kind |-> kind, byteOffset |-> byteOffset,
          length |-> length, err |-> "none"]

\* gltf-parser.js getBufferViewData, with a defect a careless port could have:
\* the accessor's own byteOffset is forgotten and VEC2 counted as VEC3.
GetBufferViewDataNoAccessorOffset(bufferData, bufferView, accessor) ==
  LET byteOffset == Or0(bufferView.byteOffset)
      elementCount == IF accessor.type \in {"VEC3", "VEC2"}
                        THEN accessor.count * 3 ELSE accessor.count
  IN NewTypedArray("Float32", bufferData, byteOffset, elementCount)

\* the same function with the `default' branches replaced by a silent guess
GetBufferViewDataSilentDefault(bufferData, bufferView, accessor) ==
  LET byteOffset == Or0(bufferView.byteOffset) + Or0(accessor.byteOffset)
      elementCount ==
        CASE accessor.type = "VEC3" -> accessor.count * 3
          [] accessor.type = "VEC2" -> accessor.count * 2
          [] OTHER -> accessor.count
  IN CASE accessor.componentType = 5120 -> NewTypedArray("Int8", bufferData, byteOffset, elementCount)
       [] accessor.componentType = 5121 -> NewTypedArray("Uint8", bufferData, byteOffset, elementCount)
       [] accessor.componentType = 5122 -> NewTypedArray("Int16", bufferData, byteOffset, elementCount)
       [] accessor.componentType = 5123 -> NewTypedArray("Uint16", bufferData, byteOffset, elementCount)
       [] accessor.componentType = 5126 -> NewTypedArray("Float32", bufferData, byteOffset, elementCount)
       [] OTHER -> NewTypedArray("Uint32", bufferData, byteOffset, elementCount)

\* gltf-parser.js getBufferViewData
GetBufferViewData(bufferData, bufferView, accessor) ==
  LET byteOffset == Or0(bufferView.byteOffset) + Or0(accessor.byteOffset)
      elementCount ==
        CASE accessor.type = "VEC3" -> accessor.count * 3
          [] accessor.type = "VEC2" -> accessor.count * 2
          [] accessor.type = "SCALAR" -> accessor.count
          [] OTHER -> Absent
  IN IF elementCount = Absent THEN NoView("UnsupportedAccessorType")
     ELSE
       CASE accessor.componentType = 5120 -> NewTypedArray("Int8", bufferData, byteOffset, elementCount)
         [] accessor.componentType = 5121 -> NewTypedArray("Uint8", bufferData, byteOffset, elementCount)
         [] accessor.componentType = 5122 -> NewTypedArray("Int16", bufferData, byteOffset, elementCount)
         [] accessor.componentType = 5123 -> NewTypedArray("Uint16", bufferData, byteOffset, elementCount)
         [] accessor.componentType = 5125 -> NewTypedArray("Uint32", bufferData, byteOffset, elementCount)
         [] accessor.componentType = 5126 -> NewTypedArray("Float32", bufferData, byteOffset, elementCount)
         [] OTHER -> NoView("UnsupportedComponentType")

(***************************************************************************)
(* Element decoding (little-endian, as on every platform WebGL runs on)    *)
(***************************************************************************)
RECURSIVE Pow2(_)
Pow2(k) == IF k <= 0 THEN 1 ELSE 2 * Pow2(k - 1)

\* One coordinate unit (1.0) in the model's fixed-point grid
Q == 2 * 2

\* IEEE-754 binary32 -> quarter units.  Exact for every value on the quarter
\* grid; finer values are truncated to it, NaN/Infinity are not produced by
\* the fixtures below.
DecodeFloat32(b0, b1, b2, b3) ==
  LET neg == b3 >= 128
      e == (b3 % 128) * 2 + (b2 \div 128)
      m == (b2 % 128) * 65536 + b1 * 256 + b0
      mag == IF e = 0 THEN 0
             ELSE IF e <= 148 THEN (8388608 + m) \div Pow2(148 - e)
             ELSE (8388608 + m) * Pow2(e - 148)
  IN IF neg THEN 0 - mag ELSE mag

DecodeElem(kind, bytes, at) ==
  CASE kind = "Uint8" -> bytes[at + 1]
    [] kind = "Int8" -> IF bytes[at + 1] >= 128 THEN bytes[at + 1] - 256 ELSE bytes[at + 1]
    [] kind = "Uint16" -> bytes[at + 1] + 256 * bytes[at + 2]
    [] kind = "Int16" ->
         LET u == bytes[at + 1] + 256 * bytes[at + 2]
         IN IF u >= 32768 THEN u - 65536 ELSE u
    [] kind = "Uint32" ->
         bytes[at + 1] + 256 * bytes[at + 2] + 65536 * bytes[at + 3]
           + 16777216 * bytes[at + 4]
    [] kind = "Float32" ->
         DecodeFloat32(bytes[at + 1], bytes[at + 2], bytes[at + 3], bytes[at + 4])
    [] OTHER -> 0

\* the elements a view shows: view[i] for i in 0..length-1
ViewElems(bytes, view) ==
  [i \in 1..view.length |->
     DecodeElem(view.kind, bytes, view.byteOffset + (i - 1) * ElementSize(view.kind))]

\* new Uint16Array(typedArray): every element converted by ToUint16
ToUint16Array(elems) == [i \in 1..Len(elems) |-> elems[i] % 65536]

(***************************************************************************)
(* Binary fixtures: what an exporter writes into the .bin file             *)
(***************************************************************************)
F32Bytes(q) ==
  CASE q = 0 -> <<0, 0, 0, 0>>
    [] q = 1 -> <<0, 0, 128, 62>>
    [] q = 2 -> <<0, 0, 0, 63>>
    [] q = 4 -> <<0, 0, 128, 63>>
    [] q = 6 -> <<0, 0, 192, 63>>
    [] q = 8 -> <<0, 0, 0, 64>>
    [] q = 0 - 2 -> <<0, 0, 0, 191>>
    [] q = 0 - 4 -> <<0, 0, 128, 191>>
    [] q = 0 - 8 -> <<0, 0, 0, 192>>

U8Bytes(n) == <<n % 256>>

U16Bytes(n) == <<n % 256, (n \div 256) % 256>>

U32Bytes(n) ==
  <<n % 256, (n \div 256) % 256, (n \div 65536) % 256, (n \div 16777216) % 256>>

RECURSIVE Flatten(_)
Flatten(ss) == IF ss = <<>> THEN <<>> ELSE Head(ss) \o Flatten(Tail(ss))

VertBytes(v) == F32Bytes(v[1]) \o F32Bytes(v[2]) \o F32Bytes(v[3])

IndexBytes(ct, n) ==
  CASE ct \in {5120, 5121} -> U8Bytes(n)
    [] ct \in {5122, 5123} -> U16Bytes(n)
    [] ct = 5126 -> F32Bytes(Q * n)
    [] OTHER -> U32Bytes(n)

\* the .bin of a model: positions, normals (0,0,1), texcoords (0,0), indices
BuildBin(verts, idx, idxCT) ==
  Flatten([i \in 1..Len(verts) |-> VertBytes(verts[i])])
    \o Flatten([i \in 1..Len(verts) |-> VertBytes(<<0, 0, Q>>)])
    \o Flatten([i \in 1..Len(verts) |-> F32Bytes(0) \o F32Bytes(0)])
    \o Flatten([i \in 1..Len(idx) |-> IndexBytes(idxCT, idx[i])])

(***************************************************************************)
(* The manifest (parsed JSON) and the asset it belongs to                  *)
(***************************************************************************)
DotGltf == <<".", "g", "l", "t", "f">>

DotGlb == <<".", "g", "l", "b">>

DotBin == <<".", "b", "i", "n">>

DotPng == <<".", "p", "n", "g">>

Accessor(ct, ty, n, bv) ==
  [componentType |-> ct, type |-> ty, count |-> n, byteOffset |-> Absent, bufferView |-> bv]

\* A manifest as an exporter writes it for BuildBin(verts, idx, idxCT):
\* accessors 0..3 = POSITION, NORMAL, TEXCOORD_0, indices, one bufferView each.
\*   meshes  : "absent" | "empty" | "one"
\*   POSITION, NORMAL, TEXCOORD_0, indices : accessor index, Absent if not declared
\*   bufferUri, imageUri : the declared uri, <<>> if none
\*   matKind : "absent"   no `materials' key in the manifest
\*             "none"     `materials' present, the primitive names no material
\*             "plain"    a material without baseColorTexture
\*             "textured" a material with baseColorTexture -> textures[0] -> images[0]
BaseJson(nv, ni, idxCT) ==
  [valid |-> TRUE, meshes |-> "one",
   POSITION |-> 0, NORMAL |-> 1, TEXCOORD_0 |-> 2, indices |-> 3,
   accessors |-> <<Accessor(5126, "VEC3", nv, 0), Accessor(5126, "VEC3", nv, 1),
                   Accessor(5126, "VEC2", nv, 2), Accessor(idxCT, "SCALAR", ni, 3)>>,
   bufferViews |-> <<[byteOffset |-> Absent], [byteOffset |-> 12 * nv],
                     [byteOffset |-> 24 * nv], [byteOffset |-> 32 * nv]>>,
   bufferUri |-> <<"s">> \o DotBin,
   matKind |-> "none",
   imageUri |-> <<"t">> \o DotPng]

\* gltfJson.accessors[i]: undefined (here <<>>) when i is undefined or out of range
AccessorAt(json, i) ==
  IF i # Absent /\ i < Len(json.accessors) THEN <<json.accessors[i + 1]>> ELSE <<>>

(***************************************************************************)
(* One parseGltf call                                                      *)
(***************************************************************************)
NoErr == [kind |-> "none", path |-> <<>>, sample |-> <<>>]

Err(k, p, smp) == [kind |-> k, path |-> p, sample |-> smp]

NoBounds == [finite |-> TRUE, center |-> <<0, 0, 0>>, radius |-> 0]

NoDrawable ==
  [present |-> FALSE, position |-> <<>>, normal |-> <<>>, indices |-> <<>>,
   indexKind |-> "none", hasTexCoord |-> FALSE, texCoord |-> <<>>, texture |-> "null",
   vertexCount |-> 0, indexType |-> 0, bounds |-> NoBounds, name |-> <<>>]

NoAsset == [verts |-> <<>>, idx |-> <<>>, idxCT |-> 0, json |-> BaseJson(0, 0, 0)]

IdleLoad ==
  [pc |-> "idle", kind |-> "none", keys |-> <<>>, url |-> <<>>, asset |-> NoAsset,
   selected |-> <<>>, baseUrl |-> <<>>, main |-> <<>>, sourceName |-> <<"g", "l", "t", "f">>,
   localFileMap |-> <<>>, parsed |-> FALSE, binLoaded |-> FALSE,
   reqs |-> <<>>, work |-> NoDrawable,
   err |-> NoErr, drawable |-> NoDrawable]

\* an error that is recorded while the call carries on
FailButContinue(l, e) == [l EXCEPT !.err = e]

\* `throw' inside the async function: the call ends, its promise rejects with e
Fail(l, e) == [l EXCEPT !.pc = "failed", !.err = e]

Request(l, op, res, path, next) ==
  [l EXCEPT !.pc = next, !.reqs = Append(@, [op |-> op, res |-> res, path |-> path])]

\* Map.prototype.get(path) is truthy
MapHas(keys, p) == \E i \in 1..Len(keys) : keys[i] = p

\* listAvailableFiles(limit = 10)
ListAvailableFiles(keys) == SubSeq(keys, 1, Min2(Len(keys), 10))

IsMainCandidate(p) == EndsWith(p, DotGltf) \/ EndsWith(p, DotGlb)

\* Array.from(source.keys()).find(path => path.endsWith('.gltf') || path.endsWith('.glb'))
FindMainFile(keys) ==
  LET hits == {i \in 1..Len(keys) : IsMainCandidate(keys[i])}
  IN IF hits = {} THEN <<>>
     ELSE keys[CHOOSE i \in hits : \A j \in hits : i <= j]

\* the directory part of a path or URL: everything up to and including the last '/'
DirOfRoot(p) == <<>>

DirOf(p) == Substring(p, 0, LastIndexOf(p, "/") + 1)

\* fileName.replace(/\.[^/.]+$/, '') || 'gltf'
SourceNameOf(p) ==
  LET n == StripExtension(LastSegment(p))
  IN IF n = <<>> THEN <<"g", "l", "t", "f">> ELSE n

\* getWebGLComponentType: the WebGL constant of a GLTF component type
GetWebGLComponentType(componentType) ==
  CASE componentType = 5120 -> BYTE
    [] componentType = 5121 -> UNSIGNED_BYTE
    [] componentType = 5122 -> SHORT
    [] componentType = 5123 -> UNSIGNED_SHORT
    [] componentType = 5125 -> UNSIGNED_INT
    [] componentType = 5126 -> FLOAT
    [] OTHER -> Absent

RECURSIVE MaxIndexFrom(_, _)
\* let maxIndex = 0; for (...) if (indices[i] > maxIndex) maxIndex = indices[i];
MaxIndexFrom(elems, acc) ==
  IF elems = <<>> THEN acc
  ELSE MaxIndexFrom(Tail(elems), IF Head(elems) > acc THEN Head(elems) ELSE acc)

\* the index normalisation with the range test dropped: always narrows
NormalizeIndicesUnchecked(componentType, kind, elems, ext) ==
  IF componentType = 5125 /\ ~ext
    THEN [ok |-> TRUE, indices |-> ToUint16Array(elems), kind |-> "Uint16",
          indexType |-> UNSIGNED_SHORT]
    ELSE [ok |-> TRUE, indices |-> elems, kind |-> kind,
          indexType |-> GetWebGLComponentType(componentType)]

\* the index normalisation that narrows the array but keeps the declared type
NormalizeIndicesStaleType(componentType, kind, elems, ext) ==
  IF componentType = 5125 /\ ~ext
    THEN IF MaxIndexFrom(elems, 0) <= 65535
           THEN [ok |-> TRUE, indices |-> ToUint16Array(elems), kind |-> "Uint16",
                 indexType |-> UNSIGNED_INT]
           ELSE [ok |-> FALSE, indices |-> <<>>, kind |-> "none", indexType |-> 0]
    ELSE [ok |-> TRUE, indices |-> elems, kind |-> kind,
          indexType |-> GetWebGLComponentType(componentType)]

\* parseGltf, "Handle 32-bit indices for WebGL1"
NormalizeIndices(componentType, kind, elems, ext) ==
  IF componentType = 5125 /\ ~ext
    THEN IF MaxIndexFrom(elems, 0) <= 65535
           THEN [ok |-> TRUE, indices |-> ToUint16Array(elems), kind |-> "Uint16",
                 indexType |-> UNSIGNED_SHORT]
           ELSE [ok |-> FALSE, indices |-> <<>>, kind |-> "none", indexType |-> 0]
    ELSE [ok |-> TRUE, indices |-> elems, kind |-> kind,
          indexType |-> GetWebGLComponentType(componentType)]

SetMin(S) == CHOOSE x \in S : \A y \in S : x <= y

SetMax(S) == CHOOSE x \in S : \A y \in S : x >= y

\* the positions of axis a (1..3) met by the loop `for (i = 0; i < length; i += 3)'
AxisValues(pos, a) == {pos[3 * (k - 1) + a] : k \in 1..(Len(pos) \div 3)}

\* bounds taken from the first vertex alone
ComputeBoundsFirstVertex(pos) ==
  IF Len(pos) < 3 THEN [finite |-> FALSE, center |-> <<0, 0, 0>>, radius |-> 0]
  ELSE [finite |-> TRUE, center |-> <<pos[1], pos[2], pos[3]>>, radius |-> Q]

\* bounds without the `|| 1' fallback
ComputeBoundsNoFallback(pos) ==
  IF Len(pos) < 3 THEN [finite |-> FALSE, center |-> <<0, 0, 0>>, radius |-> 0]
  ELSE
    LET lo == [a \in 1..3 |-> SetMin(AxisValues(pos, a))]
        hi == [a \in 1..3 |-> SetMax(AxisValues(pos, a))]
    IN [finite |-> TRUE,
        center |-> [a \in 1..3 |-> (lo[a] + hi[a]) \div 2],
        radius |-> Max2(hi[1] - lo[1], Max2(hi[2] - lo[2], hi[3] - lo[3])) \div 2]

\* parseGltf, "Compute bounds for camera framing".  With no vertex the min/max
\* stay +-Infinity: center is NaN and radius -Infinity (finite = FALSE).
\* Coordinates lie on the half-unit grid, so both halvings are exact.
ComputeBounds(pos) ==
  IF Len(pos) < 3 THEN [finite |-> FALSE, center |-> <<0, 0, 0>>, radius |-> 0]
  ELSE
    LET lo == [a \in 1..3 |-> SetMin(AxisValues(pos, a))]
        hi == [a \in 1..3 |-> SetMax(AxisValues(pos, a))]
        r == Max2(hi[1] - lo[1], Max2(hi[2] - lo[2], hi[3] - lo[3])) \div 2
    IN [finite |-> TRUE,
        center |-> [a \in 1..3 |-> (lo[a] + hi[a]) \div 2],
        radius |-> IF r = 0 THEN Q ELSE r]

\* the content of a file of the set / of the server, by what the exporter wrote
FileBytes(asset) == BuildBin(asset.verts, asset.idx, asset.idxCT)

\* lines 514-553: bounds, the drawable record, return
Finish(l, texture) ==
  [l EXCEPT !.pc = "done",
            !.drawable = [l.work EXCEPT !.present = TRUE,
                                        !.texture = texture,
                                        !.bounds = ComputeBounds(l.work.position),
                                        !.name = l.sourceName]]

\* lines 481-512: the material's base colour texture, up to the image load
ResolveTexture(l) ==
  LET json == l.asset.json
      imagePath == l.baseUrl \o json.imageUri
  IN CASE json.matKind = "absent" -> Fail(l, Err("TypeError", <<>>, <<>>))
       [] json.matKind \in {"none", "plain"} -> Finish(l, "null")
       [] OTHER ->
            IF json.imageUri = <<>> THEN Fail(l, Err("EmbeddedImage", <<>>, <<>>))
            ELSE IF MapHas(l.localFileMap, imagePath)
              THEN Request(l, "objectURL", "image", imagePath, "image")
            ELSE IF l.baseUrl # <<>>
              THEN Request(l, "fetch", "image", imagePath, "image")
            ELSE Fail(l, Err("CannotResolveImage", imagePath,
                             ListAvailableFiles(l.localFileMap)))

\* lines 441-479: decode the views, normalise the indices, upload the buffers
DecodeBuffers(l, bin, ext) ==
  LET json == l.asset.json
      pa == AccessorAt(json, json.POSITION)[1]
      na == AccessorAt(json, json.NORMAL)[1]
      ia == AccessorAt(json, json.indices)[1]
      pv == GetBufferViewData(bin, json.bufferViews[pa.bufferView + 1], pa)
      nv == GetBufferViewData(bin, json.bufferViews[na.bufferView + 1], na)
      iv == GetBufferViewData(bin, json.bufferViews[ia.bufferView + 1], ia)
      norm == NormalizeIndices(ia.componentType, iv.kind, ViewElems(bin, iv), ext)
      ta == AccessorAt(json, json.TEXCOORD_0)
      tv == GetBufferViewData(bin, json.bufferViews[ta[1].bufferView + 1], ta[1])
  IN IF ~pv.ok THEN Fail(l, Err(pv.err, <<>>, <<>>))
     ELSE IF ~nv.ok THEN Fail(l, Err(nv.err, <<>>, <<>>))
     ELSE IF ~iv.ok THEN Fail(l, Err(iv.err, <<>>, <<>>))
     ELSE IF ~norm.ok THEN Fail(l, Err("IndexRange", <<>>, <<>>))
     ELSE IF ta # <<>> /\ ~tv.ok THEN Fail(l, Err(tv.err, <<>>, <<>>))
     ELSE ResolveTexture(
            [l EXCEPT !.work =
               [NoDrawable EXCEPT !.position = ViewElems(bin, pv),
                                  !.normal = ViewElems(bin, nv),
                                  !.indices = norm.indices,
                                  !.indexKind = norm.kind,
                                  !.indexType = norm.indexType,
                                  !.hasTexCoord = (ta # <<>>),
                                  !.texCoord = IF ta # <<>> THEN ViewElems(bin, tv) ELSE <<>>,
                                  !.vertexCount = ia.count]])

\* the validation with the mesh test left out
ValidateManifestNoMeshTest(json) ==
  IF AccessorAt(json, json.POSITION) = <<>>
       \/ AccessorAt(json, json.NORMAL) = <<>>
       \/ AccessorAt(json, json.indices) = <<>>
    THEN "MissingRequiredAttributes"
    ELSE "ok"

\* the validation with NORMAL forgotten in the attribute test
ValidateManifestNoNormalTest(json) ==
  IF json.meshes \in {"absent", "empty"} THEN "NoMeshes"
  ELSE IF AccessorAt(json, json.POSITION) = <<>> \/ AccessorAt(json, json.indices) = <<>>
    THEN "MissingRequiredAttributes"
  ELSE "ok"

\* lines 402-418: the mesh list, then the required accessors of primitive 0
ValidateManifest(json) ==
  IF json.meshes \in {"absent", "empty"} THEN "NoMeshes"
  ELSE IF AccessorAt(json, json.POSITION) = <<>>
          \/ AccessorAt(json, json.NORMAL) = <<>>
          \/ AccessorAt(json, json.indices) = <<>>
    THEN "MissingRequiredAttributes"
  ELSE "ok"

\* the buffer resolution that starts the image load together with the buffer's
ResolveBufferAndImageTogether(l) ==
  LET json == l.asset.json
      bufferPath == l.baseUrl \o json.bufferUri
      op == IF MapHas(l.localFileMap, bufferPath) THEN "read" ELSE "fetch"
      withBuffer == Request(l, op, "buffer", bufferPath, "buffer")
  IN IF ValidateManifest(json) # "ok" THEN Fail(l, Err(ValidateManifest(json), <<>>, <<>>))
     ELSE IF json.bufferUri = <<>> THEN Fail(l, Err("EmbeddedBuffer", <<>>, <<>>))
     ELSE IF ~MapHas(l.localFileMap, bufferPath) /\ l.baseUrl = <<>>
       THEN Fail(l, Err("CannotResolveBuffer", bufferPath,
                        ListAvailableFiles(l.localFileMap)))
     ELSE IF json.matKind = "textured" /\ json.imageUri # <<>>
       THEN Request(withBuffer, "fetch", "image", l.baseUrl \o json.imageUri, "buffer")
     ELSE withBuffer

\* the buffer resolution that goes to the network whenever the set has no entry
ResolveBufferAlwaysFetch(l) ==
  LET json == l.asset.json
      bufferPath == l.baseUrl \o json.bufferUri
  IN IF ValidateManifest(json) # "ok" THEN Fail(l, Err(ValidateManifest(json), <<>>, <<>>))
     ELSE IF json.bufferUri = <<>> THEN Fail(l, Err("EmbeddedBuffer", <<>>, <<>>))
     ELSE IF MapHas(l.localFileMap, bufferPath)
       THEN Request(l, "read", "buffer", bufferPath, "buffer")
     ELSE Request(l, "fetch", "buffer", bufferPath, "buffer")

\* lines 402-439: validation, then the binary buffer's location
ResolveBuffer(l) ==
  LET json == l.asset.json
      bufferPath == l.baseUrl \o json.bufferUri
  IN IF ValidateManifest(json) # "ok" THEN Fail(l, Err(ValidateManifest(json), <<>>, <<>>))
     ELSE IF json.bufferUri = <<>> THEN Fail(l, Err("EmbeddedBuffer", <<>>, <<>>))
     ELSE IF MapHas(l.localFileMap, bufferPath)
       THEN Request(l, "read", "buffer", bufferPath, "buffer")
     ELSE IF l.baseUrl # <<>>
       THEN Request(l, "fetch", "buffer", bufferPath, "buffer")
     ELSE Fail(l, Err("CannotResolveBuffer", bufferPath,
                      ListAvailableFiles(l.localFileMap)))

\* parseGltf lines 364-400, up to the first await
StartLoad(kind, keys, url, asset) ==
  LET l0 == [IdleLoad EXCEPT !.kind = kind, !.keys = keys, !.url = url, !.asset = asset]
  IN CASE kind = "url" -> Request(l0, "fetch", "manifest", url, "manifest")
       [] kind = "map" ->
            LET mainFilePath == FindMainFile(keys)
            IN IF mainFilePath = <<>> THEN Fail(l0, Err("NoMainFile", <<>>, <<>>))
               ELSE Request([l0 EXCEPT !.main = mainFilePath,
                                       !.baseUrl = DirOf(mainFilePath)],
                            "read", "manifest", mainFilePath, "manifest")
       [] kind = "bytes" ->
            IF ~asset.json.valid THEN Fail(l0, Err("SyntaxError", <<>>, <<>>))
            ELSE ResolveBuffer([l0 EXCEPT !.parsed = TRUE])
       [] OTHER -> Fail(l0, Err("UnsupportedSource", <<>>, <<>>))

\* the continuation after the manifest fetch / file read
AfterManifest(l, outcome) ==
  IF l.kind = "url"
    THEN CASE outcome = "notOk" -> Fail(l, Err("ManifestFetchFailed", l.url, <<>>))
           [] outcome = "reject" -> Fail(l, Err("NetworkError", l.url, <<>>))
           [] OTHER ->
                IF ~l.asset.json.valid THEN Fail(l, Err("SyntaxError", <<>>, <<>>))
                ELSE ResolveBuffer([l EXCEPT !.parsed = TRUE,
                                             !.baseUrl = DirOf(l.url),
                                             !.sourceName = SourceNameOf(l.url)])
    ELSE \* a .glb is binary: JSON.parse throws on it
         IF EndsWith(l.main, DotGlb) \/ ~l.asset.json.valid
           THEN Fail(l, Err("SyntaxError", <<>>, <<>>))
           ELSE ResolveBuffer([l EXCEPT !.parsed = TRUE,
                                        !.sourceName = SourceNameOf(l.main),
                                        !.localFileMap = l.keys])

LastReq(l) == l.reqs[Len(l.reqs)]

\* the continuation whose index handling depends on where the manifest sits in
\* the map: the extension is only honoured when the manifest is the first key
AfterBufferOrderSensitive(l, outcome, ext) ==
  CASE outcome = "notOk" -> Fail(l, Err("FetchBufferFailed", LastReq(l).path, <<>>))
    [] outcome = "reject" -> Fail(l, Err("NetworkError", LastReq(l).path, <<>>))
    [] OTHER -> DecodeBuffers([l EXCEPT !.binLoaded = TRUE], FileBytes(l.asset),
                              ext /\ (l.keys = <<>> \/ l.keys[1] = l.main))

\* the continuation after the binary buffer's read / fetch
AfterBuffer(l, outcome, ext) ==
  CASE outcome = "notOk" -> Fail(l, Err("FetchBufferFailed", LastReq(l).path, <<>>))
    [] outcome = "reject" -> Fail(l, Err("NetworkError", LastReq(l).path, <<>>))
    [] OTHER -> DecodeBuffers([l EXCEPT !.binLoaded = TRUE], FileBytes(l.asset), ext)

\* the continuation after image.onload / image.onerror
AfterImage(l, outcome) ==
  IF outcome = "ok" THEN Finish(l, "tex")
  ELSE Fail(l, Err("TextureLoadFailed", LastReq(l).path, <<>>))

\* what the environment may answer to a request
Outcomes(req) ==
  CASE req.op = "fetch" /\ req.res # "image" -> {"ok", "notOk", "reject"}
    [] req.op = "read" -> {"ok"}
    [] OTHER -> {"ok", "error"}

(***************************************************************************)
(* menu-handlers.js: building the virtual file set                         *)
(***************************************************************************)
\* primary collation weight of a character: punctuation before letters
CharRank(c) ==
  CASE c = "." -> 1
    [] c = "/" -> 2
    [] LowerChar(c) = "a" -> 11
    [] LowerChar(c) = "b" -> 12
    [] LowerChar(c) = "c" -> 13
    [] LowerChar(c) = "f" -> 16
    [] LowerChar(c) = "g" -> 17
    [] LowerChar(c) = "i" -> 19
    [] LowerChar(c) = "l" -> 22
    [] LowerChar(c) = "m" -> 23
    [] LowerChar(c) = "n" -> 24
    [] LowerChar(c) = "p" -> 26
    [] LowerChar(c) = "s" -> 29
    [] LowerChar(c) = "t" -> 30
    [] LowerChar(c) = "x" -> 34
    [] OTHER -> 40

RECURSIVE PrimaryLess(_, _)
PrimaryLess(a, b) ==
  IF b = <<>> THEN FALSE
  ELSE IF a = <<>> THEN TRUE
  ELSE IF CharRank(Head(a)) # CharRank(Head(b)) THEN CharRank(Head(a)) < CharRank(Head(b))
  ELSE PrimaryLess(Tail(a), Tail(b))

RECURSIVE CaseLess(_, _)
\* tertiary level, met only when the primary keys are equal: lower case first
CaseLess(a, b) ==
  IF a = <<>> \/ b = <<>> THEN FALSE
  ELSE IF Head(a) # Head(b) THEN Head(a) = LowerChar(Head(a))
  ELSE CaseLess(Tail(a), Tail(b))

\* a.localeCompare(b) < 0
LocaleLess(a, b) ==
  \/ PrimaryLess(a, b)
  \/ ~PrimaryLess(b, a) /\ CaseLess(a, b)

\* gltfPaths: the keys whose lower-cased form ends with '.gltf', in map order
GltfPaths(keys) == SelectSeq(keys, LAMBDA p : EndsWith(ToLowerCase(p), DotGltf))

SeqFirst(sq, Test(_)) ==
  LET hits == {i \in 1..Len(sq) : Test(sq[i])}
  IN IF hits = {} THEN <<>> ELSE sq[CHOOSE i \in hits : \A j \in hits : i <= j]

\* processFolderHandle lines 107-118: the manifest the folder import selects
SelectPath(gltfPaths, preferredGltfName) ==
  LET byHint == IF preferredGltfName = <<>> THEN <<>>
                ELSE SeqFirst(gltfPaths,
                       LAMBDA p : EndsWith(p, <<"/">> \o preferredGltfName)
                                    \/ p = preferredGltfName)
      rootCandidates == SelectSeq(gltfPaths, LAMBDA p : ~Includes(p, "/"))
      byRoot == IF Len(rootCandidates) = 1 THEN rootCandidates[1] ELSE <<>>
      sortedFirst == CHOOSE p \in {gltfPaths[i] : i \in 1..Len(gltfPaths)} :
                       \A i \in 1..Len(gltfPaths) :
                          gltfPaths[i] = p \/ LocaleLess(p, gltfPaths[i])
  IN IF byHint # <<>> THEN byHint
     ELSE IF byRoot # <<>> THEN byRoot
     ELSE sortedFirst

\* processFolderHandle lines 120-124: the selected path first, the rest in map order
OrderedMap(dirKeys, selectedPath) ==
  <<selectedPath>> \o SelectSeq(dirKeys, LAMBDA p : p # selectedPath)

(***************************************************************************)
(* Inputs: assets, file sets, enumeration orders                           *)
(***************************************************************************)
MaxVerts == 2

MaxIdx == 2

MaxCount == 2

MaxOffset == 3

DecBufLen == 16

MaxBands == 3

MaxRadius == 2

MaxGeoCalls == 3

MaxRequests == 2

\* calls made on the scene, and animation frames the browser runs
MaxSceneCalls == 3

MaxFrames == 2

\* user events on the page, and clock ticks
MaxEvents == 4

MaxTicks == 4

\* openEditor calls
MaxOpens == 3

Gs == <<"s">> \o DotGltf

Bs == <<"s">> \o DotBin

Tp == <<"t">> \o DotPng

InM(p) == <<"m", "/">> \o p

SampleUrl == <<"h", "/">> \o Gs

Triangle == <<<<0, 0, 0>>, <<4, 0, 0>>, <<0, 4, 0>>>>

CubeVerts ==
  <<<<0 - 4, 0 - 4, 0 - 4>>, <<0 - 4, 0 - 4, 4>>, <<0 - 4, 4, 0 - 4>>, <<0 - 4, 4, 4>>,
    <<4, 0 - 4, 0 - 4>>, <<4, 0 - 4, 4>>, <<4, 4, 0 - 4>>, <<4, 4, 4>>>>

MkAsset(verts, idx, idxCT) ==
  [verts |-> verts, idx |-> idx, idxCT |-> idxCT,
   json |-> BaseJson(Len(verts), Len(idx), idxCT)]

Base == MkAsset(Triangle, <<0, 1, 2>>, 5123)

WithJson(a, j) == [a EXCEPT !.json = j]

BaseAssets ==
  {WithJson(Base, [Base.json EXCEPT !.matKind = k]) : k \in {"none", "textured"}}

\* manifests that differ from the base one in structure
StructAssets ==
  {WithJson(Base, [Base.json EXCEPT !.meshes = m]) : m \in {"absent", "empty"}}
  \cup {WithJson(Base, [Base.json EXCEPT !.POSITION = p, !.NORMAL = n,
                                         !.indices = i, !.TEXCOORD_0 = t]) :
          p \in {0, Absent}, n \in {1, Absent}, i \in {3, 7, Absent}, t \in {2, Absent}}
  \cup {WithJson(Base, [Base.json EXCEPT !.matKind = k, !.imageUri = u, !.bufferUri = b]) :
          k \in {"absent", "none", "plain", "textured"},
          u \in {<<>>, Tp}, b \in {<<>>, Bs}}
  \cup {WithJson(Base, [Base.json EXCEPT !.valid = FALSE])}

IndexVals == {0, 65535, 65536, 70000}

SeqsUpTo(S, lo, hi) == UNION {[1..n -> S] : n \in lo..hi}

IdxAssets ==
  {MkAsset(Triangle, idx, 5125) : idx \in SeqsUpTo(IndexVals, 1, MaxIdx)}
  \cup {MkAsset(Triangle, <<0, 1, 2>>, ct) : ct \in 5120..5126}

Points ==
  {<<0 - 4, 0 - 4, 0 - 4>>, <<4, 4, 4>>, <<2, 4, 4>>, <<4, 0 - 4, 2>>, <<0, 2, 0 - 2>>}

PosAssets ==
  {MkAsset(vs, <<0>>, 5123) : vs \in SeqsUpTo(Points, 0, MaxVerts)}
  \cup {MkAsset(CubeVerts, <<0, 1, 2>>, 5123)}

Assets == BaseAssets \cup StructAssets \cup IdxAssets \cup PosAssets

PairSet == {Gs, Bs}

SmallSets ==
  {{Gs, Bs, Tp}, {InM(Gs), InM(Bs), InM(Tp)}, {InM(Gs), Bs, Tp},
   {Gs, Tp}, {InM(Gs), InM(Tp)}, PairSet, {InM(Gs), InM(Bs)}}

BigSets ==
  {{<<"b">> \o DotGltf, <<"c">> \o DotGltf, <<"a", "/", "x">> \o DotGltf, Bs,
    <<"a", "/">> \o Bs},
   {<<"s">> \o DotGlb, Gs, Bs},
   {Bs},
   {<<"S", ".", "G", "L", "T", "F">>, InM(Gs), Bs, InM(Bs)}}

FileSetsOf(asset) ==
  IF asset \in BaseAssets THEN SmallSets \cup BigSets
  ELSE IF asset \in StructAssets THEN SmallSets
  ELSE {PairSet}

\* every enumeration order of a set of paths
Perms(S) == {f \in [1..Cardinality(S) -> S] : \A x \in S : \E i \in DOMAIN f : f[i] = x}

TopDir(p) == IF Includes(p, "/") THEN Substring(p, 0, LastIndexOf(p, "/")) ELSE <<>>

\* buildFileMapFromDirectory: a sub-directory's files are merged in one block
DirOrders(S) ==
  {f \in Perms(S) :
     \A i, j, k \in DOMAIN f :
        (i < j /\ j < k /\ TopDir(f[i]) # <<>> /\ TopDir(f[i]) = TopDir(f[k]))
          => TopDir(f[j]) = TopDir(f[i])}

(***************************************************************************)
(* geometry.js: the built-in cube and sphere                               *)
(***************************************************************************)
\* the default values of createSphere's latitudeBands and longitudeBands
DefaultBands == 30

\* assetVersions (asset-manifest.js): the keys that have a version
AssetVersionKeys == {<<"c", "b", ".", "j", "p", "g">>}

\* resolveTextureUrl().manifestKey
ManifestKey == <<"c", "b", ".", "p", "n", "g">>

\* the query createDefaultTexturedCube / createTexturedSphere append to the
\* texture URL: "v" (?v=version) when the manifest has the key, else "t" (?t=now)
TextureUrlQuery == IF ManifestKey \in AssetVersionKeys THEN "v" ELSE "t"

\* initCubeBuffers: positions, 4 vertices per face, in units of Q
CubePositions ==
  [i \in 1..72 |->
    Q * <<0 - 1, 0 - 1, 1,   1, 0 - 1, 1,   1, 1, 1,   0 - 1, 1, 1,
          0 - 1, 0 - 1, 0 - 1,   0 - 1, 1, 0 - 1,   1, 1, 0 - 1,   1, 0 - 1, 0 - 1,
          0 - 1, 1, 0 - 1,   0 - 1, 1, 1,   1, 1, 1,   1, 1, 0 - 1,
          0 - 1, 0 - 1, 0 - 1,   1, 0 - 1, 0 - 1,   1, 0 - 1, 1,   0 - 1, 0 - 1, 1,
          1, 0 - 1, 0 - 1,   1, 1, 0 - 1,   1, 1, 1,   1, 0 - 1, 1,
          0 - 1, 0 - 1, 0 - 1,   0 - 1, 0 - 1, 1,   0 - 1, 1, 1,   0 - 1, 1, 0 - 1>>[i]]

\* initCubeBuffers: the same four texture coordinates for each of the six faces
CubeTexCoords == [i \in 1..48 |-> Q * <<0, 0, 1, 0, 1, 1, 0, 1>>[((i - 1) % 8) + 1]]

\* initCubeBuffers: one normal per face, repeated for its four vertices
CubeNormals ==
  [i \in 1..72 |->
    Q * <<0, 0, 1,   0, 0, 0 - 1,   0, 1, 0,   0, 0 - 1, 0,   1, 0, 0,   0 - 1, 0, 0>>
          [3 * ((i - 1) \div 12) + ((i - 1) % 3) + 1]]

\* initCubeBuffers: cubeVertexIndices, two triangles (0 1 2, 0 2 3) per face
CubeVertexIndices ==
  [i \in 1..36 |-> 4 * ((i - 1) \div 6) + <<0, 1, 2, 0, 2, 3>>[((i - 1) % 6) + 1]]

\* new Uint16Array(list): every element modulo 2^16
Uint16From(list) == [i \in 1..Len(list) |-> list[i] % 65536]

\* createDefaultCube(gl)
CreateDefaultCube ==
  [NoDrawable EXCEPT !.present = TRUE,
                     !.position = CubePositions,
                     !.normal = CubeNormals,
                     !.hasTexCoord = TRUE,
                     !.texCoord = CubeTexCoords,
                     !.indices = Uint16From(CubeVertexIndices),
                     !.indexKind = "Uint16",
                     !.texture = "null",
                     !.vertexCount = 36,
                     !.indexType = UNSIGNED_SHORT,
                     !.name = <<"c", "u", "b", "e">>]

\* createSphere: indexData, six indices per (latNumber, longNumber) cell
SphereIndexData(latitudeBands, longitudeBands) ==
  [i \in 1..(6 * latitudeBands * longitudeBands) |->
    LET cell == (i - 1) \div 6
        latNumber == cell \div longitudeBands
        longNumber == cell % longitudeBands
        first == latNumber * (longitudeBands + 1) + longNumber
        second == first + longitudeBands + 1
    IN <<first, second, first + 1, second, second + 1, first + 1>>[((i - 1) % 6) + 1]]

\* createSphere: one vertex per (latNumber, longNumber), latNumber outermost.
\* A vertex is carried by its grid angles and radius (theta index, phi index,
\* radius) in place of the Cartesian triple the code derives from them.
SphereVertexData(radius, latitudeBands, longitudeBands) ==
  [i \in 1..(3 * (latitudeBands + 1) * (longitudeBands + 1)) |->
    LET v == (i - 1) \div 3
    IN <<v \div (longitudeBands + 1), v % (longitudeBands + 1), radius>>[((i - 1) % 3) + 1]]

\* createSphere: u = 1 - longNumber / longitudeBands, v = 1 - latNumber / latitudeBands,
\* carried as the numerators longitudeBands - longNumber, latitudeBands - latNumber
SphereTexCoordData(latitudeBands, longitudeBands) ==
  [i \in 1..(2 * (latitudeBands + 1) * (longitudeBands + 1)) |->
    LET v == (i - 1) \div 2
    IN <<longitudeBands - (v % (longitudeBands + 1)),
         latitudeBands - (v \div (longitudeBands + 1))>>[((i - 1) % 2) + 1]]

\* createSphere(gl, radius, latitudeBands, longitudeBands)
CreateSphere(radius, latitudeBands, longitudeBands) ==
  [NoDrawable EXCEPT !.present = TRUE,
                     !.position = SphereVertexData(radius, latitudeBands, longitudeBands),
                     !.normal = SphereVertexData(1, latitudeBands, longitudeBands),
                     !.hasTexCoord = TRUE,
                     !.texCoord = SphereTexCoordData(latitudeBands, longitudeBands),
                     !.indices = Uint16From(SphereIndexData(latitudeBands, longitudeBands)),
                     !.indexKind = "Uint16",
                     !.texture = "null",
                     !.vertexCount = Len(SphereIndexData(latitudeBands, longitudeBands)),
                     !.indexType = UNSIGNED_SHORT,
                     !.name = <<"s", "p", "h", "e", "r", "e">>]

\* the textured cube whose catch block rethrows
DefaultTexturedCubeRethrow(outcome) ==
  IF outcome = "ok"
    THEN [CreateDefaultCube EXCEPT !.texture = "tex",
                                   !.name = <<"t", "e", "x", "t", "u", "r", "e", "d", " ">> \o @]
    ELSE NoDrawable

\* createDefaultTexturedCube after `await loadTexture': the try block's return,
\* or the catch block's fallback
DefaultTexturedCubeResult(outcome) ==
  IF outcome = "ok"
    THEN [CreateDefaultCube EXCEPT !.texture = "tex",
                                   !.name = <<"t", "e", "x", "t", "u", "r", "e", "d", " ">> \o @]
    ELSE CreateDefaultCube

\* createTexturedSphere after `await loadTexture'
TexturedSphereResult(outcome) ==
  IF outcome = "ok"
    THEN [CreateSphere(1, DefaultBands, DefaultBands)
            EXCEPT !.texture = "tex",
                   !.name = <<"t", "e", "x", "t", "u", "r", "e", "d", " ">> \o @]
    ELSE CreateSphere(1, DefaultBands, DefaultBands)

\* one call of a geometry.js generator: fn, its texture request, its result, and
\* the objects created in the WebGL context so far
IdleGeo ==
  [pc |-> "idle", fn |-> "none", query |-> "none", outcome |-> "none",
   result |-> NoDrawable, calls |-> 0, buffers |-> 0, textures |-> 0]

(***************************************************************************)
(* The WebGL context shared by every call, and two calls side by side      *)
(***************************************************************************)
\* buffers[id] / textures[id]: the data store of each object; *Binding: the
\* object bound to the target, 0 for none
IdleGl ==
  [buffers |-> <<>>, arrayBinding |-> 0, elementBinding |-> 0,
   textures |-> <<>>, textureBinding |-> 0]

\* gl.bufferData(target, data, usage): fills the buffer bound to the target
BufferData(g, target, data) ==
  LET at == IF target = "ARRAY_BUFFER" THEN g.arrayBinding ELSE g.elementBinding
  IN IF at = 0 THEN g ELSE [g EXCEPT !.buffers[at] = data]

\* createAndBindBuffer with the bindBuffer call forgotten
CreateBufferWithoutBind(g, target, data) ==
  BufferData([g EXCEPT !.buffers = Append(@, <<>>)], target, data)

\* createAndBindBuffer(gl, target, data): the new buffer's id is Len(buffers)
CreateAndBindBuffer(g, target, data) ==
  LET id == Len(g.buffers) + 1
      created == [g EXCEPT !.buffers = Append(@, <<>>)]
      bound == IF target = "ARRAY_BUFFER" THEN [created EXCEPT !.arrayBinding = id]
               ELSE [created EXCEPT !.elementBinding = id]
  IN BufferData(bound, target, data)

\* createAndBindTexture(gl, image): the image is named by the path it came from
CreateAndBindTexture(g, image) ==
  LET id == Len(g.textures) + 1
      bound == [g EXCEPT !.textures = Append(@, <<>>), !.textureBinding = id]
  IN [bound EXCEPT !.textures[bound.textureBinding] = image]

NoBuffers == [position |-> 0, normal |-> 0, indices |-> 0, texCoord |-> 0]

\* lines 465-479: position, normal, indices, then texCoord when declared
UploadBuffers(g, work) ==
  LET g1 == CreateAndBindBuffer(g, "ARRAY_BUFFER", work.position)
      g2 == CreateAndBindBuffer(g1, "ARRAY_BUFFER", work.normal)
      g3 == CreateAndBindBuffer(g2, "ELEMENT_ARRAY_BUFFER", work.indices)
      g4 == IF work.hasTexCoord THEN CreateAndBindBuffer(g3, "ARRAY_BUFFER", work.texCoord)
            ELSE g3
  IN [gl |-> g4,
      buffers |-> [position |-> Len(g1.buffers), normal |-> Len(g2.buffers),
                   indices |-> Len(g3.buffers),
                   texCoord |-> IF work.hasTexCoord THEN Len(g4.buffers) ELSE 0]]

Callers == {"first", "second"}

\* one parseGltf call among several: its locals, the answers it got so far,
\* and the WebGL objects its drawable refers to
IdleCall == [ld |-> IdleLoad, outs |-> <<>>, buffers |-> NoBuffers, texture |-> 0]

IdlePair == [calls |-> [c \in Callers |-> IdleCall], gl |-> IdleGl]

TexturedBase == WithJson(Base, [Base.json EXCEPT !.matKind = "textured"])

\* a second model, textured, with 32-bit indices
Segment ==
  WithJson(MkAsset(<<<<4, 4, 4>>, <<0, 2, 0 - 2>>>>, <<1, 0>>, 5125),
           [BaseJson(2, 2, 5125) EXCEPT !.matKind = "textured"])

\* the sources the two calls draw from: [kind, keys, url, asset]
PairSources ==
  {[kind |-> "map", keys |-> k, url |-> <<>>, asset |-> Base] : k \in Perms(PairSet)}
  \cup {[kind |-> "map", keys |-> k, url |-> <<>>, asset |-> Segment] :
          k \in Perms({Gs, Bs, Tp})}
  \cup {[kind |-> "map", keys |-> <<InM(Gs), InM(Bs)>>, url |-> <<>>, asset |-> Base]}
  \cup {[kind |-> "url", keys |-> <<>>, url |-> SampleUrl, asset |-> TexturedBase]}

(***************************************************************************)
(* The scene (scene.js): drawable, program, user script, render chain      *)
(***************************************************************************)
\* null is 0; drawables, programs and user scripts are told apart by a number
DrawableIds == {1, 2}

ScriptIds == {1, 2}

\* the script createScene starts with: init and update do nothing
DefaultScript == 0

\* a user script whose init throws
InitThrows(script) == script = 2

\* the members of the object createScene returns
SceneApi == {"start", "updateProgramInfo", "updateUserScript", "loadGeometry"}

NoSceneCall ==
  [op |-> "none", vsOk |-> TRUE, fsOk |-> TRUE, linkOk |-> TRUE,
   result |-> 0, threw |-> FALSE]

\* createScene's closure.  raf is the browser's list of animation frame
\* callbacks; trace lists what the scene was asked and what it called on the
\* user script, in order; last is the latest call made on the scene and what
\* it gave back; loaded is the argument of the latest loadGeometry call.
IdleScene ==
  [drawable |-> 0, lastDrawable |-> 0, programInfo |-> 0,
   userScript |-> DefaultScript, unlitProgramInfo |-> FALSE,
   raf |-> <<>>, trace |-> <<>>, calls |-> 0, frames |-> 0, programs |-> 0,
   errorConsole |-> "none", last |-> NoSceneCall, loaded |-> Absent]

ScriptEvent(kind, script) == [kind |-> kind, script |-> script]

\* forceUpdate with the try/catch around init left out
ForceUpdateNoCatch(s, reinitScript) ==
  LET called == IF reinitScript
                THEN [s EXCEPT !.trace = Append(@, ScriptEvent("init", s.userScript))]
                ELSE s
  IN  IF reinitScript /\ InitThrows(s.userScript)
      THEN [called EXCEPT !.last.threw = TRUE]
      ELSE [called EXCEPT !.raf = Append(@, "render")]

\* forceUpdate({ reinitScript }): init of the current script inside try/catch,
\* then requestAnimationFrame(render)
ForceUpdate(s, reinitScript) ==
  LET called == IF reinitScript
                THEN [s EXCEPT !.trace = Append(@, ScriptEvent("init", s.userScript))]
                ELSE s
  IN  [called EXCEPT !.raf = Append(@, "render")]

\* one run of the render callback: it draws and calls the script's update only
\* with a program and a drawable, and asks for the next frame either way
Render(s) ==
  LET seen == [s EXCEPT !.lastDrawable = s.drawable]
  IN  IF seen.programInfo = 0 \/ seen.drawable = 0
      THEN [seen EXCEPT !.raf = Append(@, "render")]
      ELSE [seen EXCEPT !.trace = Append(@, ScriptEvent("update", s.userScript)),
                        !.raf = Append(@, "render")]

\* the callback loadGeometry queues: debugDrawUnlit(drawable) with the drawable
\* current when the frame runs; it builds the unlit program on first use
DebugDrawUnlit(s) ==
  IF s.drawable = 0 THEN s ELSE [s EXCEPT !.unlitProgramInfo = TRUE]

RECURSIVE RunCallbacks(_, _)
RunCallbacks(s, queue) ==
  IF queue = <<>> THEN s
  ELSE RunCallbacks(IF Head(queue) = "render" THEN Render(s) ELSE DebugDrawUnlit(s),
                    Tail(queue))

\* one animation frame: the browser runs the callbacks queued before the frame;
\* those they queue run in the next one
AnimationFrame(s) ==
  RunCallbacks([s EXCEPT !.raf = <<>>, !.frames = @ + 1], s.raf)

SceneCall(s, op) ==
  [s EXCEPT !.calls = @ + 1, !.last = [NoSceneCall EXCEPT !.op = op],
            !.trace = Append(@, ScriptEvent(op, s.userScript))]

\* start: () => forceUpdate({ reinitScript: true })
SceneStart(s) == ForceUpdate(SceneCall(s, "start"), TRUE)

\* updateProgramInfo: (newProgramInfo) => ...
UpdateProgramInfo(s, newProgramInfo) ==
  ForceUpdate([s EXCEPT !.programInfo = newProgramInfo], FALSE)

\* updateUserScript: (newUserScript) => ...
UpdateUserScript(s, newUserScript) ==
  LET installed == [s EXCEPT !.userScript = newUserScript]
  IN  ForceUpdate(SceneCall(installed, "updateUserScript"), TRUE)

\* loadGeometry: (newDrawable) => ...
LoadGeometry(s, newDrawable) ==
  LET set    == [SceneCall(s, "loadGeometry")
                   EXCEPT !.drawable = newDrawable, !.loaded = newDrawable]
      queued == IF newDrawable # 0
                THEN [set EXCEPT !.raf = Append(@, "debug")]
                ELSE set
  IN  ForceUpdate(queued, TRUE)

\* scene.getDrawable(), as scene.test.js calls it: a call of a member the
\* returned object does not have throws a TypeError
GetDrawable(s) ==
  LET called == SceneCall(s, "getDrawable")
  IN  IF "getDrawable" \in SceneApi
      THEN [called EXCEPT !.last.result = s.drawable]
      ELSE [called EXCEPT !.last.threw = TRUE]

\* loadShader(gl, type, source): null (FALSE here) and a message in the error
\* console when the shader does not compile
LoadShader(s, shaderType, compiles) ==
  IF compiles THEN s
  ELSE [s EXCEPT !.errorConsole = shaderType \o " Shader Compile Error"]

\* initShaderProgram without the LINK_STATUS test
InitShaderProgramNoLinkTest(s, vsOk, fsOk, linkOk) ==
  LET afterVs == LoadShader(s, "Vertex", vsOk)
      afterFs == LoadShader(afterVs, "Fragment", fsOk)
      created == [afterFs EXCEPT !.programs = @ + 1]
  IN  IF ~vsOk \/ ~fsOk
      THEN [scene |-> afterFs, program |-> 0]
      ELSE [scene |-> created, program |-> created.programs]

\* initShaderProgram(gl, vsSource, fsSource): both shaders are compiled before
\* either result is tested; the program is null (0) unless everything succeeds
InitShaderProgram(s, vsOk, fsOk, linkOk) ==
  LET afterVs == LoadShader(s, "Vertex", vsOk)
      afterFs == LoadShader(afterVs, "Fragment", fsOk)
      created == [afterFs EXCEPT !.programs = @ + 1]
  IN  IF ~vsOk \/ ~fsOk
      THEN [scene |-> afterFs, program |-> 0]
      ELSE IF ~linkOk
      THEN [scene |-> [created EXCEPT !.errorConsole = "Shader Program Link Error"],
            program |-> 0]
      ELSE [scene |-> created, program |-> created.programs]

ShaderCall(s, op, vsOk, fsOk, linkOk) ==
  [s EXCEPT !.calls = @ + 1,
            !.last = [NoSceneCall EXCEPT !.op = op, !.vsOk = vsOk, !.fsOk = fsOk,
                                         !.linkOk = linkOk]]

\* app-facade.js setShaders(vertexSource, fragmentSource)
SetShaders(s, vsOk, fsOk, linkOk) ==
  LET built == InitShaderProgram(ShaderCall(s, "setShaders", vsOk, fsOk, linkOk),
                                 vsOk, fsOk, linkOk)
  IN  IF built.program = 0
      THEN built.scene
      ELSE [UpdateProgramInfo(built.scene, built.program)
              EXCEPT !.last.result = built.program]

\* main.js updateShader(), with both shader editors open: a program that was
\* built is handed to the scene and the error console is hidden
UpdateShader(s, vsOk, fsOk, linkOk) ==
  LET built == InitShaderProgram(ShaderCall(s, "updateShader", vsOk, fsOk, linkOk),
                                 vsOk, fsOk, linkOk)
  IN  IF built.program = 0
      THEN built.scene
      ELSE [UpdateProgramInfo(built.scene, built.program)
              EXCEPT !.last.result = built.program, !.errorConsole = "none"]

\* main.js updateScript(), with the script editor open: the editor's text is
\* compiled; a module with init and update is installed and the error console
\* hidden, anything else ends in the catch, which shows the message
UpdateScript(s, scriptOk) ==
  IF scriptOk
  THEN [UpdateUserScript(s, 1) EXCEPT !.errorConsole = "none"]
  ELSE [s EXCEPT !.errorConsole = "Scene script error"]

(***************************************************************************)
(* The page script (main.js): Run button and auto-refresh timer            *)
(***************************************************************************)
\* setTimeout(runUpdates, 10000)
AutoRefreshDelay == 10000

\* the clock advances in steps of this many milliseconds
TickMs == 5000

\* what the editors hold: does the vertex shader compile, the fragment shader,
\* does the program link, does the script give init and update
Content(vsOk, fsOk, linkOk, scriptOk) ==
  [vsOk |-> vsOk, fsOk |-> fsOk, linkOk |-> linkOk, scriptOk |-> scriptOk]

GoodContent == Content(TRUE, TRUE, TRUE, TRUE)

Contents ==
  {GoodContent, Content(TRUE, TRUE, FALSE, TRUE), Content(TRUE, TRUE, TRUE, FALSE)}

NoRun == [by |-> "none", at |-> 0, lastChange |-> Absent]

\* window.onload's closure once initializeApp has finished: the project files
\* are open, runUpdates has run once and left the Run button disabled.
\* timers is the browser's set of pending timeouts, autoRefreshTimer the id
\* the last setTimeout returned (0: null); now is the time in milliseconds.
IdleMain ==
  [isAutoRefreshEnabled |-> FALSE, autoRefreshTimer |-> 0, timers |-> {},
   timerIds |-> 0, now |-> 0, reloadDisabled |-> TRUE, content |-> GoodContent,
   events |-> 0, changes |-> 0, lastChange |-> Absent, runs |-> 0,
   lastRun |-> NoRun]

\* the scene when initializeApp has finished: default cube loaded, runUpdates
\* applied to the project's shaders and script, start called
StartedScene ==
  SceneStart(UpdateScript(UpdateShader(LoadGeometry(IdleScene, 1),
                                       TRUE, TRUE, TRUE), TRUE))

\* clearTimeout(id): the timeout with that id, if still pending, is dropped
ClearTimeout(m, id) == [m EXCEPT !.timers = {t \in @ : t.id # id}]

\* setTimeout(runUpdates, 10000) and the assignment of its id
SetAutoRefreshTimeout(m) ==
  [m EXCEPT !.timerIds = @ + 1, !.autoRefreshTimer = m.timerIds + 1,
            !.timers = @ \cup {[id |-> m.timerIds + 1,
                                due |-> m.now + AutoRefreshDelay]}]

\* resetAutoRefreshTimer without the clearTimeout
ResetAutoRefreshTimerNoClear(m) ==
  IF m.isAutoRefreshEnabled THEN SetAutoRefreshTimeout(m) ELSE m

\* resetAutoRefreshTimer()
ResetAutoRefreshTimer(m) ==
  LET cleared == ClearTimeout(m, m.autoRefreshTimer)
  IN  IF cleared.isAutoRefreshEnabled THEN SetAutoRefreshTimeout(cleared)
      ELSE cleared

\* onEditorChange(): the change event of an editable editor
OnEditorChange(m, content) ==
  ResetAutoRefreshTimer([m EXCEPT !.reloadDisabled = FALSE, !.content = content,
                                  !.changes = @ + 1, !.lastChange = m.now])

\* the change listener of #auto-refresh-checkbox
OnAutoRefreshChange(m, checked) ==
  ResetAutoRefreshTimer([m EXCEPT !.isAutoRefreshEnabled = checked])

\* runUpdates(): what it does to the page ...
RunUpdates(m, by) ==
  [m EXCEPT !.reloadDisabled = TRUE, !.runs = @ + 1,
            !.lastRun = [by |-> by, at |-> m.now, lastChange |-> m.lastChange]]

\* ... and to the scene: updateShader(), then updateScript()
RunUpdatesScene(s, content) ==
  UpdateScript(UpdateShader(s, content.vsOk, content.fsOk, content.linkOk),
               content.scriptOk)


(***************************************************************************)
(* The editor tabs (editor.js)                                             *)
(***************************************************************************)
\* files of the explorer: 'main' has a path and is fetched, the others take
\* their text from the page
FileIds == {"vertex", "script", "main"}

HasPath(fileId) == fileId = "main"

\* setupEditors' closure and the tab bar.  openEditors lists the entries of
\* the object in Object.keys order; tabs lists the tab elements of
\* .editor-tabs, left to right, each with the CodeMirror instance created with
\* it; pending lists the openEditor calls that have not finished.
IdleEditors ==
  [openEditors |-> <<>>, tabs |-> <<>>, activeEditorId |-> "null",
   pending |-> <<>>, insts |-> 0, opens |-> 0,
   last |-> [op |-> "none", fileId |-> "null"]]

OpenIds(e) == [i \in DOMAIN e.openEditors |-> e.openEditors[i].id]

IsOpen(e, fileId) == \E i \in DOMAIN e.openEditors : e.openEditors[i].id = fileId

\* openEditors[fileId]
EntryOf(e, fileId) ==
  e.openEditors[CHOOSE i \in DOMAIN e.openEditors : e.openEditors[i].id = fileId]

IndexOfId(e, fileId) ==
  CHOOSE i \in DOMAIN e.openEditors : e.openEditors[i].id = fileId

\* classList.add('active') / remove('active') on the tab and the editor of
\* one instance
SetActive(tabs, inst, on) ==
  [i \in DOMAIN tabs |-> IF tabs[i].inst = inst THEN [tabs[i] EXCEPT !.active = on]
                         ELSE tabs[i]]

\* switchToTab(fileId)
SwitchToTab(e, fileId) ==
  IF ~IsOpen(e, fileId) \/ e.activeEditorId = fileId THEN e
  ELSE LET off == IF e.activeEditorId # "null" /\ IsOpen(e, e.activeEditorId)
                  THEN SetActive(e.tabs, EntryOf(e, e.activeEditorId).inst, FALSE)
                  ELSE e.tabs
       IN  [e EXCEPT !.tabs = SetActive(off, EntryOf(e, fileId).inst, TRUE),
                     !.activeEditorId = fileId]

\* closeEditor(fileIdToClose, event)
CloseEditor(e, fileIdToClose) ==
  IF ~IsOpen(e, fileIdToClose) THEN e
  ELSE LET tabIds == OpenIds(e)
           currentIndex == IndexOfId(e, fileIdToClose)
           nextActiveId ==
             IF e.activeEditorId = fileIdToClose /\ Len(tabIds) > 1
             THEN IF currentIndex > 1 THEN tabIds[currentIndex - 1]
                  ELSE tabIds[currentIndex + 1]
             ELSE "null"
           gone == EntryOf(e, fileIdToClose).inst
           removed ==
             [e EXCEPT !.tabs = SelectSeq(@, LAMBDA t : t.inst # gone),
                       !.openEditors = SelectSeq(@, LAMBDA o : o.id # fileIdToClose)]
       IN  IF nextActiveId # "null"
           THEN SwitchToTab([removed EXCEPT !.activeEditorId = "null"], nextActiveId)
           ELSE IF removed.openEditors = <<>>
           THEN [removed EXCEPT !.activeEditorId = "null"]
           ELSE removed

\* openEditor up to its first suspension: an open file is switched to, any
\* other is fetched when it has a path and then built in a setTimeout(0)
BeginOpenEditor(e, fileId) ==
  IF IsOpen(e, fileId) THEN SwitchToTab(e, fileId)
  ELSE [e EXCEPT !.pending =
          Append(@, [fileId |-> fileId,
                     pc |-> IF HasPath(fileId) THEN "fetch" ELSE "timeout"])]

\* openEditors[fileId] = { editor, tabEl, readOnly }: an existing key keeps
\* its place in Object.keys, a new one goes last
PutEntry(entries, entry) ==
  IF \E i \in DOMAIN entries : entries[i].id = entry.id
  THEN [i \in DOMAIN entries |-> IF entries[i].id = entry.id THEN entry ELSE entries[i]]
  ELSE Append(entries, entry)

RemoveAt(sq, k) == [i \in 1..(Len(sq) - 1) |-> IF i < k THEN sq[i] ELSE sq[i + 1]]

\* the setTimeout(0) callback of the k-th pending openEditor: tab element and
\* CodeMirror instance are created and appended, the entry is stored, the tab
\* is switched to
BuildEditor(e, k) ==
  LET fileId == e.pending[k].fileId
      inst   == e.insts + 1
      built  == [e EXCEPT !.insts = inst,
                          !.tabs = Append(@, [fileId |-> fileId, inst |-> inst,
                                              active |-> FALSE]),
                          !.openEditors = PutEntry(@, [id |-> fileId, inst |-> inst]),
                          !.pending = RemoveAt(@, k)]
  IN  SwitchToTab(built, fileId)


(***************************************************************************)
(* The state machine                                                       *)
(***************************************************************************)
\* the scene's drawable: which request put it there (0: application start-up)
SceneOf(req, name) == [present |-> TRUE, req |-> req, name |-> name]

\* scene.loadGeometry(null)
NullScene(req) == [present |-> FALSE, req |-> req, name |-> "null"]

\* setupMenuHandlers' closure and the page around it, after app-facade.js has
\* loaded the default cube.  calls[i] is the i-th request the user made.
IdleUi ==
  [scene |-> SceneOf(0, "cube"), errorConsole |-> "none",
   pickerActive |-> FALSE, inputOpen |-> FALSE,
   currentShapeLoader |-> "null", shapesDisabled |-> FALSE, textured |-> FALSE,
   calls |-> <<>>]


IdleDec ==
  [pc |-> "idle", componentType |-> 0, type |-> "SCALAR", count |-> 0,
   bvOffset |-> Absent, accOffset |-> Absent, view |-> NoView("none")]

DecBuffer == [i \in 1..DecBufLen |-> 0]

ComponentTypes == 5119..5127

AccessorTypes == {"SCALAR", "VEC2", "VEC3", "VEC4", "MAT4"}

Init ==
  /\ dec = IdleDec
  /\ glExt \in BOOLEAN
  /\ ld = IdleLoad
  /\ geo = IdleGeo
  /\ ui = IdleUi
  /\ pair = IdlePair
  /\ sc = IdleScene
  /\ mn = IdleMain
  /\ ed = IdleEditors

\* onLoadSample: parseGltf(gl, sampleUrl)
LoadSample ==
  /\ ld.pc = "idle"
  /\ \E asset \in BaseAssets \cup StructAssets :
       ld' = StartLoad("url", <<>>, SampleUrl, asset)
  /\ UNCHANGED <<dec, glExt, geo, ui, pair, sc, mn, ed>>

\* parseGltf(gl, arrayBuffer)
LoadBytes ==
  /\ ld.pc = "idle"
  /\ \E asset \in BaseAssets \cup StructAssets :
       ld' = StartLoad("bytes", <<>>, <<>>, asset)
  /\ UNCHANGED <<dec, glExt, geo, ui, pair, sc, mn, ed>>

\* processZipFile: the map is filled in the order the entries' promises resolve
ImportZip ==
  /\ ld.pc = "idle"
  /\ \E asset \in Assets : \E fs \in FileSetsOf(asset) : \E keys \in Perms(fs) :
       ld' = StartLoad("map", keys, <<>>, asset)
  /\ UNCHANGED <<dec, glExt, geo, ui, pair, sc, mn, ed>>

\* processFolderHandle(dirHandle) up to the first await of parseGltf
FolderLoad(dirKeys, asset) ==
  LET gltfPaths == GltfPaths(dirKeys)
  IN IF gltfPaths = <<>>
       THEN Fail([IdleLoad EXCEPT !.kind = "map", !.keys = dirKeys, !.asset = asset],
                 Err("NoGltfInFolder", <<>>, <<>>))
       ELSE [StartLoad("map", OrderedMap(dirKeys, SelectPath(gltfPaths, <<>>)), <<>>, asset)
               EXCEPT !.selected = SelectPath(gltfPaths, <<>>)]

\* processFolderHandle(dirHandle): no preferred name is passed by its caller
ImportFolder ==
  /\ ld.pc = "idle"
  /\ \E asset \in BaseAssets : \E fs \in FileSetsOf(asset) : \E dirKeys \in DirOrders(fs) :
       ld' = FolderLoad(dirKeys, asset)
  /\ UNCHANGED <<dec, glExt, geo, ui, pair, sc, mn, ed>>

ManifestArrives ==
  /\ ld.pc = "manifest"
  /\ \E o \in Outcomes(LastReq(ld)) : ld' = AfterManifest(ld, o)
  /\ UNCHANGED <<dec, glExt, geo, ui, pair, sc, mn, ed>>

BufferArrives ==
  /\ ld.pc = "buffer"
  /\ \E o \in Outcomes(LastReq(ld)) : ld' = AfterBuffer(ld, o, glExt)
  /\ UNCHANGED <<dec, glExt, geo, ui, pair, sc, mn, ed>>

ImageArrives ==
  /\ ld.pc = "image"
  /\ \E o \in Outcomes(LastReq(ld)) : ld' = AfterImage(ld, o)
  /\ UNCHANGED <<dec, glExt, geo, ui, pair, sc, mn, ed>>

Next ==
  \/ LoadSample
  \/ LoadBytes
  \/ ImportZip
  \/ ImportFolder
  \/ ManifestArrives
  \/ BufferArrives
  \/ ImageArrives

Spec == Init /\ [][Next]_vars

\* the decoder alone, applied to every accessor of a bounded family
InitDecode ==
  /\ glExt = FALSE
  /\ ld = IdleLoad
  /\ geo = IdleGeo
  /\ ui = IdleUi
  /\ pair = IdlePair
  /\ sc = IdleScene
  /\ mn = IdleMain
  /\ ed = IdleEditors
  /\ \E ct \in ComponentTypes, ty \in AccessorTypes, n \in 0..MaxCount,
        bo \in {Absent} \cup 0..MaxOffset, ao \in {Absent} \cup 0..MaxOffset :
       dec = [IdleDec EXCEPT !.pc = "ready", !.componentType = ct, !.type = ty,
                             !.count = n, !.bvOffset = bo, !.accOffset = ao]

DecodeCall ==
  /\ dec.pc = "ready"
  /\ dec' = [dec EXCEPT !.pc = "done",
                        !.view = GetBufferViewData(DecBuffer, [byteOffset |-> dec.bvOffset],
                                   [componentType |-> dec.componentType, type |-> dec.type,
                                    count |-> dec.count, byteOffset |-> dec.accOffset,
                                    bufferView |-> 0])]
  /\ UNCHANGED <<glExt, ld, geo, ui, pair, sc, mn, ed>>

SpecDecode == InitDecode /\ [][DecodeCall]_vars

(***************************************************************************)
(* geometry.js driven call by call                                         *)
(***************************************************************************)
\* a generator returns: four buffers were created (initCubeBuffers / createSphere)
GeoReturn(g, fn, drawable) ==
  [g EXCEPT !.pc = "done", !.fn = fn, !.result = drawable, !.buffers = @ + 4]

\* createDefaultTexturedCube / createTexturedSphere up to `await loadTexture':
\* loadTexture has created its texture object and started the image load
GeoAwaitTexture(g, fn) ==
  [g EXCEPT !.pc = "loading", !.fn = fn, !.query = TextureUrlQuery,
            !.outcome = "none", !.result = NoDrawable, !.calls = @ + 1, !.textures = @ + 1]

GeoMayCall == geo.pc # "loading" /\ geo.calls < MaxGeoCalls

CallCreateDefaultCube ==
  /\ GeoMayCall
  /\ geo' = GeoReturn([geo EXCEPT !.calls = @ + 1, !.query = "none", !.outcome = "none"],
                      "createDefaultCube", CreateDefaultCube)
  /\ UNCHANGED <<dec, glExt, ld, ui, pair, sc, mn, ed>>

CallCreateSphere ==
  /\ GeoMayCall
  /\ \E radius \in 1..MaxRadius, latitudeBands \in 1..MaxBands, longitudeBands \in 1..MaxBands :
       geo' = GeoReturn([geo EXCEPT !.calls = @ + 1, !.query = "none", !.outcome = "none"], "createSphere",
                        CreateSphere(radius, latitudeBands, longitudeBands))
  /\ UNCHANGED <<dec, glExt, ld, ui, pair, sc, mn, ed>>

\* createSphere(gl): every parameter at its default
CallCreateSphereDefault ==
  /\ GeoMayCall
  /\ geo' = GeoReturn([geo EXCEPT !.calls = @ + 1, !.query = "none", !.outcome = "none"], "createSphere",
                      CreateSphere(1, DefaultBands, DefaultBands))
  /\ UNCHANGED <<dec, glExt, ld, ui, pair, sc, mn, ed>>

CallCreateDefaultTexturedCube ==
  /\ GeoMayCall
  /\ geo' = GeoAwaitTexture(geo, "createDefaultTexturedCube")
  /\ UNCHANGED <<dec, glExt, ld, ui, pair, sc, mn, ed>>

CallCreateTexturedSphere ==
  /\ GeoMayCall
  /\ geo' = GeoAwaitTexture(geo, "createTexturedSphere")
  /\ UNCHANGED <<dec, glExt, ld, ui, pair, sc, mn, ed>>

\* image.onload / image.onerror of loadTexture
GeoTextureArrives ==
  /\ geo.pc = "loading"
  /\ \E outcome \in {"ok", "error"} :
       geo' = GeoReturn([geo EXCEPT !.outcome = outcome], geo.fn,
                        IF geo.fn = "createDefaultTexturedCube"
                          THEN DefaultTexturedCubeResult(outcome)
                          ELSE TexturedSphereResult(outcome))
  /\ UNCHANGED <<dec, glExt, ld, ui, pair, sc, mn, ed>>

NextGeom ==
  \/ CallCreateDefaultCube
  \/ CallCreateSphere
  \/ CallCreateSphereDefault
  \/ CallCreateDefaultTexturedCube
  \/ CallCreateTexturedSphere
  \/ GeoTextureArrives

InitGeom ==
  /\ dec = IdleDec
  /\ glExt = FALSE
  /\ ld = IdleLoad
  /\ geo = IdleGeo
  /\ ui = IdleUi
  /\ pair = IdlePair
  /\ sc = IdleScene
  /\ mn = IdleMain
  /\ ed = IdleEditors

SpecGeom == InitGeom /\ [][NextGeom]_vars

(***************************************************************************)
(* Two parseGltf calls in flight on one WebGL context                      *)
(***************************************************************************)
\* the continuation of a call at its current await, given the answer
StepLoad(l, outcome, ext) ==
  CASE l.pc = "manifest" -> AfterManifest(l, outcome)
    [] l.pc = "buffer" -> AfterBuffer(l, outcome, ext)
    [] l.pc = "image" -> AfterImage(l, outcome)
    [] OTHER -> l

\* the same continuation with its effect on the context: the buffers are
\* uploaded in the segment that decoded them (also when the texture step of
\* that segment then throws), the texture in the segment after image.onload
StepCall(p, c, outcome, ext) ==
  LET call == p.calls[c]
      l2 == StepLoad(call.ld, outcome, ext)
      up == UploadBuffers(p.gl, l2.work)
      tex == CreateAndBindTexture(p.gl, LastReq(call.ld).path)
      next == [call EXCEPT !.ld = l2, !.outs = Append(@, outcome)]
  IN IF call.ld.pc = "buffer" /\ l2.work.indexKind # "none"
       THEN [calls |-> [p.calls EXCEPT ![c] = [next EXCEPT !.buffers = up.buffers]],
             gl |-> up.gl]
     ELSE IF call.ld.pc = "image" /\ l2.pc = "done"
       THEN [calls |-> [p.calls EXCEPT ![c] = [next EXCEPT !.texture = Len(tex.textures)]],
             gl |-> tex]
     ELSE [p EXCEPT !.calls[c] = next]

PairStart(c) ==
  /\ pair.calls[c].ld.pc = "idle"
  /\ \E src \in PairSources :
       pair' = [pair EXCEPT !.calls[c].ld = StartLoad(src.kind, src.keys, src.url, src.asset)]
  /\ UNCHANGED <<dec, glExt, ld, geo, ui, sc, mn, ed>>

PairManifestArrives(c) ==
  /\ pair.calls[c].ld.pc = "manifest"
  /\ \E o \in Outcomes(LastReq(pair.calls[c].ld)) : pair' = StepCall(pair, c, o, glExt)
  /\ UNCHANGED <<dec, glExt, ld, geo, ui, sc, mn, ed>>

PairBufferArrives(c) ==
  /\ pair.calls[c].ld.pc = "buffer"
  /\ \E o \in Outcomes(LastReq(pair.calls[c].ld)) : pair' = StepCall(pair, c, o, glExt)
  /\ UNCHANGED <<dec, glExt, ld, geo, ui, sc, mn, ed>>

PairImageArrives(c) ==
  /\ pair.calls[c].ld.pc = "image"
  /\ \E o \in Outcomes(LastReq(pair.calls[c].ld)) : pair' = StepCall(pair, c, o, glExt)
  /\ UNCHANGED <<dec, glExt, ld, geo, ui, sc, mn, ed>>

NextPair ==
  \E c \in Callers :
    \/ PairStart(c)
    \/ PairManifestArrives(c)
    \/ PairBufferArrives(c)
    \/ PairImageArrives(c)

InitPair ==
  /\ dec = IdleDec
  /\ glExt \in BOOLEAN
  /\ ld = IdleLoad
  /\ geo = IdleGeo
  /\ ui = IdleUi
  /\ pair = IdlePair
  /\ sc = IdleScene
  /\ mn = IdleMain
  /\ ed = IdleEditors

SpecPair == InitPair /\ [][NextPair]_vars

(***************************************************************************)
(* menu-handlers.js: the handlers, the requests in flight, the scene       *)
(***************************************************************************)
\* the requests that have not ended: in a native picker ("picking"), in the
\* file input's dialog ("input"), inside parseGltf ("loading"), or waiting
\* for a shape's texture ("texture")
InFlight(calls) ==
  {i \in 1..Len(calls) : calls[i].status \in {"picking", "input", "loading", "texture"}}

\* a native file dialog is open: the page takes no click until it closes
Modal(u) == \E i \in 1..Len(u.calls) : u.calls[i].status \in {"picking", "input"}

NewCall(u, handler, status, l) ==
  [handler |-> handler, status |-> status, ld |-> l, sceneBefore |-> u.scene,
   rivals |-> InFlight(u.calls), textured |-> u.textured]

\* archives and folders the user may pick: a complete model, and one with no manifest
UiFileSets == {<<Gs, Bs>>, <<Bs>>}

\* an import handler's `finally' block
ReleasePicker(u, handler) ==
  IF handler \in {"zip", "folder"} THEN [u EXCEPT !.pickerActive = FALSE] ELSE u

\* the catch block of an import handler / of onLoadSample
SurfaceError(u, i, l, kind) ==
  ReleasePicker([u EXCEPT !.errorConsole = kind,
                          !.calls[i].status = "failed",
                          !.calls[i].ld = l],
                u.calls[i].handler)

\* after `await parseGltf(...)': scene.loadGeometry(drawable) and what follows it
ApplyDrawable(u, i, l) ==
  ReleasePicker([u EXCEPT !.scene = SceneOf(i, "gltf"),
                          !.currentShapeLoader = "null",
                          !.shapesDisabled = TRUE,
                          !.calls[i].status = "applied",
                          !.calls[i].ld = l],
                u.calls[i].handler)

\* a request's parseGltf call has moved to l: still waiting, returned, or thrown
Settle(u, i, l) ==
  CASE l.pc = "done" -> ApplyDrawable(u, i, l)
    [] l.pc = "failed" -> SurfaceError(u, i, l, l.err.kind)
    [] OTHER -> [u EXCEPT !.calls[i].status = "loading", !.calls[i].ld = l]

MayClick == ~Modal(ui) /\ Len(ui.calls) < MaxRequests

NextId == Len(ui.calls) + 1

\* onImportZipClick, with or without window.showOpenFilePicker
ClickImportZip ==
  /\ MayClick
  /\ ~ui.pickerActive
  /\ \E hasPicker \in BOOLEAN :
       LET cleared == [ui EXCEPT !.scene = NullScene(NextId)]
       IN ui' = IF hasPicker
                  THEN [cleared EXCEPT !.pickerActive = TRUE,
                                       !.calls = Append(@, NewCall(ui, "zip", "picking", IdleLoad))]
                  ELSE [cleared EXCEPT !.inputOpen = TRUE,
                                       !.calls = Append(@, NewCall(ui, "file", "input", IdleLoad))]
  /\ UNCHANGED <<dec, glExt, ld, geo, pair, sc, mn, ed>>

\* onImportFolderClick, with or without window.showDirectoryPicker
ClickImportFolder ==
  /\ MayClick
  /\ ~ui.pickerActive
  /\ \E hasPicker \in BOOLEAN :
       LET cleared == [ui EXCEPT !.scene = NullScene(NextId)]
       IN ui' = IF hasPicker
                  THEN [cleared EXCEPT !.pickerActive = TRUE,
                                       !.calls = Append(@, NewCall(ui, "folder", "picking", IdleLoad))]
                  ELSE [cleared EXCEPT !.errorConsole = "DirectoryPickerUnsupported",
                                       !.calls = Append(@, NewCall(ui, "folder", "failed", IdleLoad))]
  /\ UNCHANGED <<dec, glExt, ld, geo, pair, sc, mn, ed>>

\* showOpenFilePicker / showDirectoryPicker settles: the user cancelled
\* (AbortError), or chose an archive / a folder, which is read and handed to
\* parseGltf; an archive JSZip cannot read makes loadAsync reject
PickerReturns(i) ==
  /\ i \in 1..Len(ui.calls)
  /\ ui.calls[i].status = "picking"
  /\ \/ ui' = ReleasePicker([ui EXCEPT !.calls[i].status = "cancelled"], ui.calls[i].handler)
     \/ /\ ui.calls[i].handler = "zip"
        /\ ui' = SurfaceError(ui, i, IdleLoad, "CorruptZip")
     \/ \E keys \in UiFileSets :
          ui' = Settle(ui, i, IF ui.calls[i].handler = "zip"
                                THEN StartLoad("map", keys, <<>>, Base)
                                ELSE FolderLoad(keys, Base))
  /\ UNCHANGED <<dec, glExt, ld, geo, pair, sc, mn, ed>>

\* the file input's dialog closes without a choice: no change event
FileDialogCancelled(i) ==
  /\ i \in 1..Len(ui.calls)
  /\ ui.calls[i].status = "input"
  /\ ui' = [ui EXCEPT !.inputOpen = FALSE, !.calls[i].status = "cancelled"]
  /\ UNCHANGED <<dec, glExt, ld, geo, pair, sc, mn, ed>>

\* onModelFileChange in mode 'zip': a file that is not a .zip, or an archive
ModelFileChange(i) ==
  /\ i \in 1..Len(ui.calls)
  /\ ui.calls[i].status = "input"
  /\ LET cleared == [ui EXCEPT !.inputOpen = FALSE, !.scene = NullScene(i)]
     IN \/ ui' = SurfaceError(cleared, i, IdleLoad, "NotAZipFile")
        \/ ui' = SurfaceError(cleared, i, IdleLoad, "CorruptZip")
        \/ \E keys \in UiFileSets :
             ui' = Settle(cleared, i, StartLoad("map", keys, <<>>, Base))
  /\ UNCHANGED <<dec, glExt, ld, geo, pair, sc, mn, ed>>

\* onLoadSample
ClickLoadSample ==
  /\ MayClick
  /\ ui' = [ui EXCEPT !.calls =
              Append(@, NewCall(ui, "sample", "loading",
                                StartLoad("url", <<>>, SampleUrl, TexturedBase)))]
  /\ UNCHANGED <<dec, glExt, ld, geo, pair, sc, mn, ed>>

\* an await inside a request's parseGltf call returns
AwaitReturns(i) ==
  /\ i \in 1..Len(ui.calls)
  /\ ui.calls[i].status = "loading"
  /\ \E o \in Outcomes(LastReq(ui.calls[i].ld)) :
       ui' = Settle(ui, i, StepLoad(ui.calls[i].ld, o, glExt))
  /\ UNCHANGED <<dec, glExt, ld, geo, pair, sc, mn, ed>>

\* onResetScene
ClickResetScene ==
  /\ MayClick
  /\ ui' = [ui EXCEPT !.scene = SceneOf(NextId, "cube"),
                      !.shapesDisabled = FALSE,
                      !.calls = Append(@, NewCall(ui, "reset", "applied", IdleLoad))]
  /\ UNCHANGED <<dec, glExt, ld, geo, pair, sc, mn, ed>>

\* loadCube / loadSphere, called as currentShapeLoader().  The menu-handlers
\* module imports no createTexturedSphere: the textured sphere ends in a
\* ReferenceError that nothing catches.
RunShapeLoader(u, loader) ==
  LET id == Len(u.calls) + 1
      handler == IF loader = "loadCube" THEN "cube" ELSE "sphere"
  IN IF ~u.textured
       THEN [u EXCEPT !.scene = SceneOf(id, handler),
                      !.calls = Append(@, NewCall(u, handler, "applied", IdleLoad))]
     ELSE IF loader = "loadCube"
       THEN [u EXCEPT !.calls = Append(@, NewCall(u, handler, "texture", IdleLoad))]
     ELSE [u EXCEPT !.calls = Append(@, NewCall(u, handler, "failed", IdleLoad))]

\* onShapeCube / onShapeSphere; the menu takes no click while it is disabled
ClickShape ==
  /\ MayClick
  /\ ~ui.shapesDisabled
  /\ \E loader \in {"loadCube", "loadSphere"} :
       ui' = RunShapeLoader([ui EXCEPT !.currentShapeLoader = loader], loader)
  /\ UNCHANGED <<dec, glExt, ld, geo, pair, sc, mn, ed>>

\* the Textured checkbox changes: onTexturedChange
TexturedChange ==
  /\ MayClick
  /\ ~ui.shapesDisabled
  /\ LET toggled == [ui EXCEPT !.textured = ~@]
     IN ui' = IF ui.currentShapeLoader = "null" THEN toggled
              ELSE RunShapeLoader(toggled, ui.currentShapeLoader)
  /\ UNCHANGED <<dec, glExt, ld, geo, pair, sc, mn, ed>>

\* createDefaultTexturedCube settles (textured, or untextured after a failed
\* texture load): loadCube goes on with scene.loadGeometry(cube)
ShapeTextureArrives(i) ==
  /\ i \in 1..Len(ui.calls)
  /\ ui.calls[i].status = "texture"
  /\ \E outcome \in {"ok", "error"} :
       ui' = [ui EXCEPT !.scene =
                          SceneOf(i, IF DefaultTexturedCubeResult(outcome).texture = "tex"
                                       THEN "textured cube" ELSE "cube"),
                        !.calls[i].status = "applied"]
  /\ UNCHANGED <<dec, glExt, ld, geo, pair, sc, mn, ed>>

NextUi ==
  \/ ClickImportZip
  \/ ClickImportFolder
  \/ ClickLoadSample
  \/ ClickResetScene
  \/ ClickShape
  \/ TexturedChange
  \/ \E i \in 1..MaxRequests :
       \/ PickerReturns(i)
       \/ FileDialogCancelled(i)
       \/ ModelFileChange(i)
       \/ AwaitReturns(i)
       \/ ShapeTextureArrives(i)

InitUi ==
  /\ dec = IdleDec
  /\ glExt = FALSE
  /\ ld = IdleLoad
  /\ geo = IdleGeo
  /\ ui = IdleUi
  /\ pair = IdlePair
  /\ sc = IdleScene
  /\ mn = IdleMain
  /\ ed = IdleEditors

SpecUi == InitUi /\ [][NextUi]_vars

(***************************************************************************)
(* The scene and its callers (scene.js, app-facade.js, main.js)            *)
(***************************************************************************)
MaySceneCall == sc.calls < MaxSceneCalls

CallStart ==
  /\ MaySceneCall
  /\ sc' = SceneStart(sc)
  /\ UNCHANGED <<dec, glExt, ld, geo, ui, pair, mn, ed>>

CallUpdateUserScript ==
  /\ MaySceneCall
  /\ \E script \in ScriptIds : sc' = UpdateUserScript(sc, script)
  /\ UNCHANGED <<dec, glExt, ld, geo, ui, pair, mn, ed>>

CallLoadGeometry ==
  /\ MaySceneCall
  /\ \E d \in DrawableIds \cup {0} : sc' = LoadGeometry(sc, d)
  /\ UNCHANGED <<dec, glExt, ld, geo, ui, pair, mn, ed>>

CallGetDrawable ==
  /\ MaySceneCall
  /\ sc' = GetDrawable(sc)
  /\ UNCHANGED <<dec, glExt, ld, geo, ui, pair, mn, ed>>

CallSetShaders ==
  /\ MaySceneCall
  /\ \E vsOk \in BOOLEAN, fsOk \in BOOLEAN, linkOk \in BOOLEAN :
       sc' = SetShaders(sc, vsOk, fsOk, linkOk)
  /\ UNCHANGED <<dec, glExt, ld, geo, ui, pair, mn, ed>>

CallUpdateShader ==
  /\ MaySceneCall
  /\ \E vsOk \in BOOLEAN, fsOk \in BOOLEAN, linkOk \in BOOLEAN :
       sc' = UpdateShader(sc, vsOk, fsOk, linkOk)
  /\ UNCHANGED <<dec, glExt, ld, geo, ui, pair, mn, ed>>

FrameRuns ==
  /\ sc.raf # <<>>
  /\ sc.frames < MaxFrames
  /\ sc' = AnimationFrame(sc)
  /\ UNCHANGED <<dec, glExt, ld, geo, ui, pair, mn, ed>>

NextScene ==
  \/ CallStart
  \/ CallUpdateUserScript
  \/ CallLoadGeometry
  \/ CallGetDrawable
  \/ CallSetShaders
  \/ CallUpdateShader
  \/ FrameRuns

InitScene ==
  /\ dec = IdleDec
  /\ glExt = FALSE
  /\ ld = IdleLoad
  /\ geo = IdleGeo
  /\ ui = IdleUi
  /\ pair = IdlePair
  /\ sc = IdleScene
  /\ mn = IdleMain
  /\ ed = IdleEditors

SpecScene == InitScene /\ [][NextScene]_vars

(***************************************************************************)
(* The page script: editor changes, the checkbox, the Run button, timers   *)
(***************************************************************************)
MayAct == mn.events < MaxEvents

EditorChange ==
  /\ MayAct
  /\ \E content \in Contents :
       mn' = [OnEditorChange(mn, content) EXCEPT !.events = @ + 1]
  /\ UNCHANGED <<dec, glExt, ld, geo, ui, pair, sc, ed>>

AutoRefreshChange ==
  /\ MayAct
  /\ mn' = [OnAutoRefreshChange(mn, ~mn.isAutoRefreshEnabled) EXCEPT !.events = @ + 1]
  /\ UNCHANGED <<dec, glExt, ld, geo, ui, pair, sc, ed>>

\* a disabled button gets no click
ClickRun ==
  /\ MayAct
  /\ ~mn.reloadDisabled
  /\ mn' = [RunUpdates(mn, "click") EXCEPT !.events = @ + 1]
  /\ sc' = RunUpdatesScene(sc, mn.content)
  /\ UNCHANGED <<dec, glExt, ld, geo, ui, pair, ed>>

\* a timeout runs its callback once, at or after the time it is due
TimerFires ==
  /\ \E t \in mn.timers :
       /\ t.due <= mn.now
       /\ mn' = RunUpdates([mn EXCEPT !.timers = @ \ {t}], "timer")
  /\ sc' = RunUpdatesScene(sc, mn.content)
  /\ UNCHANGED <<dec, glExt, ld, geo, ui, pair, ed>>

Tick ==
  /\ mn.now < MaxTicks * TickMs
  /\ mn' = [mn EXCEPT !.now = @ + TickMs]
  /\ UNCHANGED <<dec, glExt, ld, geo, ui, pair, sc, ed>>

NextMain ==
  \/ EditorChange
  \/ AutoRefreshChange
  \/ ClickRun
  \/ TimerFires
  \/ Tick

InitMain ==
  /\ dec = IdleDec
  /\ glExt = FALSE
  /\ ld = IdleLoad
  /\ geo = IdleGeo
  /\ ui = IdleUi
  /\ pair = IdlePair
  /\ sc = StartedScene
  /\ mn = IdleMain
  /\ ed = IdleEditors

SpecMain == InitMain /\ [][NextMain]_vars

(***************************************************************************)
(* The editor tabs: files opened, tabs clicked and closed                  *)
(***************************************************************************)
Did(e, op, fileId) == [e EXCEPT !.last = [op |-> op, fileId |-> fileId]]

\* the explorer's double click, or initializeApp opening the project files
OpenEditor ==
  /\ ed.opens < MaxOpens
  /\ \E fileId \in FileIds :
       ed' = [Did(BeginOpenEditor(ed, fileId), "open", fileId) EXCEPT !.opens = @ + 1]
  /\ UNCHANGED <<dec, glExt, ld, geo, ui, pair, sc, mn>>

\* fetch and response.text() settle; a failure only changes the text shown
EditorFetchSettles ==
  /\ \E k \in DOMAIN ed.pending :
       /\ ed.pending[k].pc = "fetch"
       /\ ed' = Did([ed EXCEPT !.pending[k].pc = "timeout"], "fetch", ed.pending[k].fileId)
  /\ UNCHANGED <<dec, glExt, ld, geo, ui, pair, sc, mn>>

EditorTimeoutRuns ==
  /\ \E k \in DOMAIN ed.pending :
       /\ ed.pending[k].pc = "timeout"
       /\ ed' = Did(BuildEditor(ed, k), "build", ed.pending[k].fileId)
  /\ UNCHANGED <<dec, glExt, ld, geo, ui, pair, sc, mn>>

\* a click on a tab in the tab bar
ClickTab ==
  /\ \E i \in DOMAIN ed.tabs :
       ed' = Did(SwitchToTab(ed, ed.tabs[i].fileId), "switch", ed.tabs[i].fileId)
  /\ UNCHANGED <<dec, glExt, ld, geo, ui, pair, sc, mn>>

\* a click on the close button of a tab in the tab bar
ClickClose ==
  /\ \E i \in DOMAIN ed.tabs :
       ed' = Did(CloseEditor(ed, ed.tabs[i].fileId), "close", ed.tabs[i].fileId)
  /\ UNCHANGED <<dec, glExt, ld, geo, ui, pair, sc, mn>>

NextEditors ==
  \/ OpenEditor
  \/ EditorFetchSettles
  \/ EditorTimeoutRuns
  \/ ClickTab
  \/ ClickClose

InitEditors ==
  /\ dec = IdleDec
  /\ glExt = FALSE
  /\ ld = IdleLoad
  /\ geo = IdleGeo
  /\ ui = IdleUi
  /\ pair = IdlePair
  /\ sc = IdleScene
  /\ mn = IdleMain
  /\ ed = IdleEditors

SpecEditors == InitEditors /\ [][NextEditors]_vars

(***************************************************************************)
(* Properties of the binary view decoder (checked under SpecDecode)        *)
(***************************************************************************)
\* the table of section 4.1: component type -> view type
MappedViewType(ct) ==
  CASE ct = 5120 -> "Int8"
    [] ct = 5121 -> "Uint8"
    [] ct = 5122 -> "Int16"
    [] ct = 5123 -> "Uint16"
    [] ct = 5125 -> "Uint32"
    [] ct = 5126 -> "Float32"
    [] OTHER -> "unsupported"

ComponentsPerElement(ty) ==
  CASE ty = "SCALAR" -> 1
    [] ty = "VEC2" -> 2
    [] ty = "VEC3" -> 3
    [] OTHER -> 0

ViewTypeBytes(vt) ==
  CASE vt \in {"Int16", "Uint16"} -> 2
    [] vt \in {"Uint32", "Float32"} -> 4
    [] OTHER -> 1

SupportedInput ==
  /\ MappedViewType(dec.componentType) # "unsupported"
  /\ ComponentsPerElement(dec.type) # 0

DeclaredOffset == Or0(dec.bvOffset) + Or0(dec.accOffset)

DeclaredLength == dec.count * ComponentsPerElement(dec.type)

ViewAsDeclared ==
  /\ dec.view.ok
  /\ dec.view.kind = MappedViewType(dec.componentType)
  /\ dec.view.byteOffset = DeclaredOffset
  /\ dec.view.length = DeclaredLength

FitsBuffer ==
  /\ DeclaredOffset % ViewTypeBytes(MappedViewType(dec.componentType)) = 0
  /\ DeclaredOffset + DeclaredLength * ViewTypeBytes(MappedViewType(dec.componentType))
       <= DecBufLen

\* C1 as stated: for every accessor of a supported component type and accessor
\* type, decode returns a view of the mapped type, at bufferView.byteOffset +
\* accessor.byteOffset, of length count x componentsPerElement(type).
C1_DecodeReturnsViewForEverySupportedAccessor ==
  (dec.pc = "done" /\ SupportedInput) => ViewAsDeclared

\* C1 amended: the view is returned as declared exactly when the absolute offset is a
\* multiple of the element size and the declared range ends inside the buffer;
\* otherwise the typed-array constructor throws RangeError.
C1_DecodeReturnsViewWhenAlignedAndInRange ==
  (dec.pc = "done" /\ SupportedInput) =>
     /\ FitsBuffer => ViewAsDeclared
     /\ ~FitsBuffer => (~dec.view.ok /\ dec.view.err = "RangeError")

C1_Witness ==
  /\ dec.pc = "done"
  /\ dec.componentType = 5123 /\ dec.type = "VEC2" /\ dec.count = 2
  /\ dec.bvOffset = 2 /\ dec.accOffset = 2
  /\ dec.view.ok /\ dec.view.kind = "Uint16"
  /\ dec.view.byteOffset = 4 /\ dec.view.length = 4

\* C2: an unsupported input never yields a view: an accessor type outside
\* SCALAR/VEC2/VEC3 fails with UnsupportedAccessorType, and component type 5124
\* (like any code outside the table) fails with UnsupportedComponentType for
\* each of SCALAR, VEC2, VEC3.
C2_UnsupportedInputFails ==
  dec.pc = "done" =>
     /\ ComponentsPerElement(dec.type) = 0 =>
          (~dec.view.ok /\ dec.view.err = "UnsupportedAccessorType")
     /\ (ComponentsPerElement(dec.type) # 0
           /\ MappedViewType(dec.componentType) = "unsupported") =>
          (~dec.view.ok /\ dec.view.err = "UnsupportedComponentType")

C2_Witness ==
  /\ dec.pc = "done"
  /\ dec.componentType = 5124 /\ dec.type = "VEC3"
  /\ ~dec.view.ok /\ dec.view.err = "UnsupportedComponentType"

(***************************************************************************)
(* Properties of one load (checked under Spec)                             *)
(***************************************************************************)
ResourceRequests(l) == {i \in 1..Len(l.reqs) : l.reqs[i].res # "manifest"}

\* the required accessors as the manifest declares them (accessors 0..3 exist)
DeclaresAll(json) ==
  /\ json.POSITION \in 0..3
  /\ json.NORMAL \in 0..3
  /\ json.indices \in 0..3

\* C3: a parsed manifest whose mesh list is empty (or missing) ends the call with
\* NoMeshes, for every source kind, and no request for the binary buffer or for an
\* image is ever issued.
C3_EmptyMeshesFailsWithoutFetch ==
  (ld.parsed /\ ld.asset.json.meshes \in {"absent", "empty"}) =>
     /\ ld.pc = "failed"
     /\ ld.err.kind = "NoMeshes"
     /\ ResourceRequests(ld) = {}
     /\ ~ld.drawable.present

C3_Witness ==
  /\ ld.kind = "url"
  /\ ld.parsed
  /\ ld.asset.json.meshes = "empty"
  /\ ld.pc = "failed" /\ ld.err.kind = "NoMeshes"
  /\ Len(ld.reqs) = 1

Uint32Indices == ld.asset.idxCT = 5125

FitsUint16(idx) == \A i \in 1..Len(idx) : idx[i] <= 65535

\* C5: for uint32 indices, once the binary buffer is in:
\*   without OES_element_index_uint and all values <= 65535, the drawable has 16-bit
\*     index width and a uint16 index array with the values as written;
\*   without it and some value > 65535, the call fails with IndexRangeExceeds16Bit
\*     and no drawable is returned;
\*   with the extension the uint32 array is kept as written.
C5_IndexNarrowing ==
  (Uint32Indices /\ ld.binLoaded) =>
     /\ (~glExt /\ ~FitsUint16(ld.asset.idx)) =>
          (ld.pc = "failed" /\ ld.err.kind = "IndexRange" /\ ~ld.drawable.present)
     /\ (~glExt /\ FitsUint16(ld.asset.idx) /\ ld.pc = "done") =>
          /\ ld.drawable.present
          /\ ld.drawable.indexType = 5123
          /\ ld.drawable.indexKind = "Uint16"
          /\ ld.drawable.indices = ld.asset.idx
     /\ (glExt /\ ld.pc = "done") =>
          /\ ld.drawable.present
          /\ ld.drawable.indexType = 5125
          /\ ld.drawable.indexKind = "Uint32"
          /\ ld.drawable.indices = ld.asset.idx
     /\ (glExt \/ FitsUint16(ld.asset.idx)) => ld.pc = "done"

C5_Witness ==
  /\ ~glExt
  /\ Uint32Indices
  /\ ld.asset.idx = <<65535, 0>>
  /\ ld.pc = "done"
  /\ ld.drawable.indexKind = "Uint16"
  /\ ld.drawable.indices = <<65535, 0>>

RECURSIVE LongestDirPrefix(_)
\* the manifest's directory, read off the path from its end
LongestDirPrefix(p) ==
  IF p = <<>> THEN <<>>
  ELSE IF p[Len(p)] = "/" THEN p
  ELSE LongestDirPrefix(SubSeq(p, 1, Len(p) - 1))

DeclaredUri(l, res) ==
  IF res = "buffer" THEN l.asset.json.bufferUri ELSE l.asset.json.imageUri

\* C6: with a virtual file set, every buffer or image request, and every failed
\* lookup, is made under the manifest's directory followed by the declared uri.
C6_PathsRelativeToManifest ==
  ld.kind = "map" =>
     /\ \A i \in ResourceRequests(ld) :
          ld.reqs[i].path = LongestDirPrefix(ld.main) \o DeclaredUri(ld, ld.reqs[i].res)
     /\ ld.err.kind = "CannotResolveBuffer" =>
          ld.err.path = LongestDirPrefix(ld.main) \o ld.asset.json.bufferUri
     /\ ld.err.kind = "CannotResolveImage" =>
          ld.err.path = LongestDirPrefix(ld.main) \o ld.asset.json.imageUri

\* manifest "m/s.gltf", uri "s.bin", and a file "s.bin" at the root of the set
C6_Witness ==
  /\ ld.kind = "map"
  /\ ld.main = <<"m", "/", "s", ".", "g", "l", "t", "f">>
  /\ MapHas(ld.keys, <<"s", ".", "b", "i", "n">>)
  /\ \E i \in ResourceRequests(ld) :
       /\ ld.reqs[i].res = "buffer"
       /\ ld.reqs[i].path = <<"m", "/", "s", ".", "b", "i", "n">>

AttemptedPath(l, res) == LongestDirPrefix(l.main) \o DeclaredUri(l, res)

MissingFromSet(l, res) ==
  /\ DeclaredUri(l, res) # <<>>
  /\ ~MapHas(l.keys, AttemptedPath(l, res))

IsResourceNotFound(l, res) ==
  /\ l.pc = "failed"
  /\ l.err.kind = (IF res = "buffer" THEN "CannotResolveBuffer" ELSE "CannotResolveImage")
  /\ l.err.path = AttemptedPath(l, res)
  /\ l.err.sample = SubSeq(l.keys, 1, Min2(Len(l.keys), 10))

\* C7: with a virtual file set, once the manifest has passed validation a declared
\* buffer uri that is absent from the set ends the call with ResourceNotFound
\* (attempted path, sample of known paths); likewise a declared image uri absent from
\* the set once the buffers are decoded; wherever the manifest lies in the set.
C7_MissingResourceIsResourceNotFound ==
  ld.kind = "map" =>
     /\ (ld.parsed /\ ld.asset.json.meshes = "one" /\ DeclaresAll(ld.asset.json)
           /\ MissingFromSet(ld, "buffer"))
          => IsResourceNotFound(ld, "buffer")
     /\ (ld.binLoaded /\ ld.work.present = FALSE /\ ld.work.indexKind # "none"
           /\ ld.asset.json.matKind = "textured" /\ MissingFromSet(ld, "image"))
          => IsResourceNotFound(ld, "image")

CodeUnit(c) ==
  CASE c = "." -> 46
    [] c = "/" -> 47
    [] c \in {"F", "G", "L", "S", "T"} -> 70
    [] c = "a" -> 97
    [] c = "b" -> 98
    [] c = "c" -> 99
    [] OTHER -> 100 + CharRank(c)

RECURSIVE LexLess(_, _)
LexLess(a, b) ==
  IF b = <<>> THEN FALSE
  ELSE IF a = <<>> THEN TRUE
  ELSE IF Head(a) # Head(b) THEN CodeUnit(Head(a)) < CodeUnit(Head(b))
  ELSE LexLess(Tail(a), Tail(b))

LexMin(S) == CHOOSE p \in S : \A q \in S : q = p \/ LexLess(p, q)

GltfCandidates(keys) == {keys[i] : i \in {j \in 1..Len(keys) : EndsWith(keys[j], DotGltf)}}

\* the rule of section 3 with no hint given: a manifest at the root of the set,
\* else the lexicographically smallest path
RuleChoices(S) ==
  LET roots == {p \in S : ~Includes(p, "/")}
  IN IF roots # {} THEN roots ELSE {LexMin(S)}

\* C8: the manifest a virtual file set is loaded from is the one the selection rule
\* names (no hint is ever supplied): a .gltf at the root of the set if there is one,
\* else the lexicographically smallest .gltf path, whatever the order of the set.
C8_ManifestChosenByRule ==
  (ld.kind = "map" /\ GltfCandidates(ld.keys) # {} /\ ld.pc # "idle"
     /\ \A i \in 1..Len(ld.keys) : ~EndsWith(ld.keys[i], DotGlb)) =>
     ld.main \in RuleChoices(GltfCandidates(ld.keys))

NVerts(pos) == Len(pos) \div 3

Coord(pos, k, a) == pos[3 * (k - 1) + a]

\* the largest difference of two vertices along one axis
LargestExtent(pos) ==
  SetMax({Coord(pos, i, a) - Coord(pos, j, a) :
            i \in 1..NVerts(pos), j \in 1..NVerts(pos), a \in 1..3})

\* C9 as stated: every drawable's radius is at least 1 unit.
C9_RadiusAtLeastOne ==
  ld.drawable.present => (ld.drawable.bounds.finite /\ ld.drawable.bounds.radius >= Q)

\* C9 amended: with at least one vertex the radius is half the largest axis extent,
\* and 1 unit only when that extent is 0; it is positive but may be below 1.
C9_RadiusHalfExtentOrOneWhenZero ==
  (ld.drawable.present /\ NVerts(ld.drawable.position) >= 1) =>
     /\ ld.drawable.bounds.finite
     /\ ld.drawable.bounds.radius > 0
     /\ IF LargestExtent(ld.drawable.position) = 0
          THEN ld.drawable.bounds.radius = Q
          ELSE 2 * ld.drawable.bounds.radius = LargestExtent(ld.drawable.position)

\* a single point: zero extent, radius 1
C9_Witness ==
  /\ ld.drawable.present
  /\ NVerts(ld.drawable.position) = 2
  /\ LargestExtent(ld.drawable.position) = 0
  /\ ld.drawable.bounds.radius = Q

\* C10: the center is, on each axis, the midpoint of the smallest and the largest
\* coordinate over all decoded vertices; the cube with corners at +-1 has
\* center (0,0,0) and radius 1.
C10_CenterIsMidpoint ==
  (ld.drawable.present /\ NVerts(ld.drawable.position) >= 1) =>
     LET pos == ld.drawable.position
     IN /\ \A a \in 1..3 :
             \E i, j \in 1..NVerts(pos) :
                /\ \A k \in 1..NVerts(pos) :
                      Coord(pos, i, a) <= Coord(pos, k, a)
                        /\ Coord(pos, k, a) <= Coord(pos, j, a)
                /\ 2 * ld.drawable.bounds.center[a] = Coord(pos, i, a) + Coord(pos, j, a)
        /\ ld.asset.verts = CubeVerts =>
             (ld.drawable.bounds.center = <<0, 0, 0>> /\ ld.drawable.bounds.radius = Q)

C10_Witness ==
  /\ ld.drawable.present
  /\ ld.asset.verts = CubeVerts
  /\ NVerts(ld.drawable.position) = 8
  /\ ld.drawable.bounds.center = <<0, 0, 0>>
  /\ ld.drawable.bounds.radius = Q


(***************************************************************************)
(* Properties of one load call as a whole (checked under Spec)             *)
(***************************************************************************)
\* the step of section 4.3 an error belongs to, 1..7 in the order the steps run:
\* manifest, mesh selection, attributes, buffer, decode, narrowing, texture
StepOfError(l) ==
  CASE l.err.kind \in {"NoMainFile", "SyntaxError", "ManifestFetchFailed",
                       "NoGltfInFolder", "UnsupportedSource"} -> 1
    [] l.err.kind = "NetworkError" -> IF l.reqs[Len(l.reqs)].res = "manifest" THEN 1 ELSE 4
    [] l.err.kind = "NoMeshes" -> 2
    [] l.err.kind = "MissingRequiredAttributes" -> 3
    [] l.err.kind \in {"EmbeddedBuffer", "CannotResolveBuffer", "FetchBufferFailed"} -> 4
    [] l.err.kind \in {"UnsupportedAccessorType", "UnsupportedComponentType",
                       "RangeError"} -> 5
    [] l.err.kind = "IndexRange" -> 6
    [] l.err.kind \in {"TypeError", "EmbeddedImage", "CannotResolveImage",
                       "TextureLoadFailed"} -> 7
    [] OTHER -> 0

RequestedRes(l) == {l.reqs[i].res : i \in 1..Len(l.reqs)}

\* what a call that stopped at step k must not have done: the work of a later step
NoLaterStepRan(l) ==
  LET k == StepOfError(l)
  IN /\ k >= 1
     /\ k = 1 => ~l.parsed
     /\ k <= 3 => "buffer" \notin RequestedRes(l)
     /\ k <= 4 => ~l.binLoaded
     /\ k <= 6 => l.work = NoDrawable
     /\ (k <= 6 \/ l.err.kind # "TextureLoadFailed") => "image" \notin RequestedRes(l)

IsPrefix(a, b) == Len(a) <= Len(b) /\ SubSeq(b, 1, Len(a)) = a

\* C12: load is fail-fast and all-or-nothing.  An error ends the call at once
\* (the call is failed whenever an error is recorded, and a failed call takes
\* no further step); the error is that of the step that failed and no later
\* step has run; no request is ever issued twice (nothing is retried); a
\* failed call returns no Drawable and a returned Drawable carries no error.
C12_FailFastAllOrNothing ==
  [][/\ ld.pc = "failed" => ld' = ld
     /\ ld'.err.kind # "none" => ld'.pc = "failed"
     /\ ld'.pc = "failed" =>
          /\ ld'.err.kind # "none"
          /\ ~ld'.drawable.present
          /\ NoLaterStepRan(ld')
     /\ ld'.drawable.present => (ld'.pc = "done" /\ ld'.err = NoErr)
     /\ ld.pc # "idle" => IsPrefix(ld.reqs, ld'.reqs)
     /\ \A i, j \in 1..Len(ld'.reqs) : ld'.reqs[i].res = ld'.reqs[j].res => i = j]_vars

\* a call that failed at its last step, the texture, after decoding everything
C12_Witness ==
  /\ ld.pc = "failed"
  /\ ld.err.kind = "TextureLoadFailed"
  /\ ld.work.position # <<>>
  /\ ~ld.drawable.present

ResRank(res) == CASE res = "manifest" -> 1 [] res = "buffer" -> 2 [] OTHER -> 3

ResourceErrors ==
  {"ManifestFetchFailed", "NetworkError", "FetchBufferFailed", "TextureLoadFailed"}

\* C15: the suspension points of one call are awaited one after another in
\* the order manifest, buffer, image.  Requests are issued in that order, each
\* resource at most once; a request is issued only when every earlier one
\* has been answered successfully (so at most one is in flight: the last one,
\* and only while the call waits for it); the resource error that ends a
\* call is that of the last request issued, the first one to fail.
C15_AwaitsAreSequential ==
  /\ \A i, j \in 1..Len(ld.reqs) :
       i < j => ResRank(ld.reqs[i].res) < ResRank(ld.reqs[j].res)
  /\ "buffer" \in RequestedRes(ld) =>
       (ld.parsed /\ (ld.kind = "bytes" \/ "manifest" \in RequestedRes(ld)))
  /\ "image" \in RequestedRes(ld) => (ld.binLoaded /\ "buffer" \in RequestedRes(ld))
  /\ ld.pc \in {"manifest", "buffer", "image"} =>
       (ld.reqs # <<>> /\ ld.reqs[Len(ld.reqs)].res = ld.pc)
  /\ (ld.pc = "failed" /\ ld.err.kind \in ResourceErrors) =>
       /\ ld.reqs # <<>>
       /\ ld.err.path = ld.reqs[Len(ld.reqs)].path
       /\ ld.reqs[Len(ld.reqs)].res = "buffer" => ~ld.binLoaded
       /\ ld.reqs[Len(ld.reqs)].res = "manifest" => ~ld.parsed

\* a call waiting for its third resource, the image, the first two answered
C15_Witness ==
  /\ ld.pc = "image"
  /\ Len(ld.reqs) = 3
  /\ ld.binLoaded

\* C17: with a raw byte buffer as source only the manifest is available.
\* Such a call never issues a fetch or a file read, returns no Drawable, and
\* a well-formed manifest that declares an external buffer uri fails with
\* the "cannot resolve" error that names the uri.
C17_BytesSourceResolvesNothing ==
  ld.kind = "bytes" =>
    /\ ld.reqs = <<>>
    /\ ld.pc = "failed"
    /\ ~ld.drawable.present
    /\ (ld.parsed /\ ld.asset.json.bufferUri # <<>>
          /\ ld.err.kind \notin {"NoMeshes", "MissingRequiredAttributes"}) =>
         (ld.err.kind = "CannotResolveBuffer" /\ ld.err.path = ld.asset.json.bufferUri)

\* a byte-buffer load of a complete manifest with an external buffer has failed
C17_Witness ==
  /\ ld.kind = "bytes"
  /\ ld.pc = "failed"
  /\ ld.err.kind = "CannotResolveBuffer"
  /\ ld.asset.json.matKind = "textured"

\* the WebGL constant of a typed array's element type
ConstantOfKind(kind) ==
  CASE kind = "Int8" -> 5120
    [] kind = "Uint8" -> 5121
    [] kind = "Int16" -> 5122
    [] kind = "Uint16" -> 5123
    [] kind = "Uint32" -> 5125
    [] kind = "Float32" -> 5126
    [] OTHER -> 0

\* C18 as stated: every returned Drawable has a 16-bit or 32-bit unsigned
\* indexType that matches the uploaded index array, and vertexCount is the
\* number of elements of that array.
C18_IndexWidthIs16Or32 ==
  ld.drawable.present =>
    /\ ld.drawable.indexType \in {5123, 5125}
    /\ ld.drawable.indexType = ConstantOfKind(ld.drawable.indexKind)
    /\ ld.drawable.vertexCount = Len(ld.drawable.indices)

\* C18 as the code has it: indexType is the WebGL constant of the element type
\* of the index array actually uploaded, which is the accessor's component
\* type (any of the six the decoder supports) or, after narrowing, 16-bit
\* unsigned; it is 16- or 32-bit unsigned exactly for accessors declared
\* 5123 or 5125; vertexCount is the element count of a SCALAR index accessor.
C18_IndexTypeMatchesUploadedArray ==
  ld.drawable.present =>
    /\ ld.drawable.indexType = ConstantOfKind(ld.drawable.indexKind)
    /\ ld.drawable.indexType \in {5120, 5121, 5122, 5123, 5125, 5126}
    /\ ld.drawable.indexType \in {5123, 5125} <=> ld.asset.idxCT \in {5123, 5125}
    /\ ld.drawable.indexType # ld.asset.idxCT =>
         (ld.asset.idxCT = 5125 /\ ld.drawable.indexType = 5123 /\ ~glExt)
    /\ ld.drawable.vertexCount = Len(ld.drawable.indices)

\* a Drawable whose 32-bit indices were narrowed, with the 16-bit type
C18_Witness ==
  /\ ld.drawable.present
  /\ ld.asset.idxCT = 5125
  /\ ld.drawable.indexKind = "Uint16"
  /\ ld.drawable.indexType = 5123
  /\ ld.drawable.vertexCount = 2

\* C19: material and texture are optional.  Once the buffers are decoded, a
\* manifest without materials, a primitive without material, or a material
\* without baseColorTexture gives a Drawable with texture null and no image
\* is resolved; without TEXCOORD_0 the Drawable has no texCoord buffer.
C19_MaterialAndTextureOptional ==
  /\ (ld.work.indexKind # "none" /\ ld.asset.json.matKind \in {"absent", "none", "plain"}) =>
       /\ ld.pc = "done"
       /\ ld.drawable.texture = "null"
       /\ "image" \notin RequestedRes(ld)
  /\ (ld.drawable.present /\ ld.asset.json.TEXCOORD_0 = Absent) =>
       ~ld.drawable.hasTexCoord

(***************************************************************************)
(* Properties of two calls (checked under SpecPair)                        *)
(***************************************************************************)
KeySet(keys) == {keys[i] : i \in 1..Len(keys)}

\* two calls were given the same manifest and the same virtual file set
SameInput(a, b) ==
  /\ a.ld.kind = b.ld.kind
  /\ a.ld.url = b.ld.url
  /\ a.ld.main = b.ld.main
  /\ a.ld.asset = b.ld.asset
  /\ KeySet(a.ld.keys) = KeySet(b.ld.keys)

\* what the context holds for a call's buffer, <<>> when the call has none
Uploaded(p, id) == IF id = 0 THEN <<>> ELSE p.gl.buffers[id]

RECURSIVE Replay(_, _, _)
\* a call run from its current await through a list of answers
Replay(l, outs, ext) ==
  IF outs = <<>> THEN l ELSE Replay(StepLoad(l, Head(outs), ext), Tail(outs), ext)

\* the same call run alone: same source, same answers, nothing else going on
RunAlone(call, ext) ==
  Replay(StartLoad(call.ld.kind, call.ld.keys, call.ld.url, call.ld.asset), call.outs, ext)

\* the ids of the WebGL buffers a call's drawable refers to
BufferIds(call) ==
  {call.buffers.position, call.buffers.normal, call.buffers.indices,
   call.buffers.texCoord} \ {0}

\* C16: two calls interleaved at their suspension points do not affect each
\* other.  At every moment each started call is exactly where it would be had
\* it run alone with the same answers; the buffers it uploaded to the shared
\* context hold its own decoded arrays, its texture its own image; a returned
\* Drawable has all its buffers; and the two calls share no buffer.
C16_InterleavedCallsAreIndependent ==
  /\ \A c \in Callers :
       LET call == pair.calls[c]
           alone == RunAlone(call, glExt)
       IN call.ld.pc # "idle" =>
            /\ call.ld = alone
            /\ Uploaded(pair, call.buffers.position) = alone.work.position
            /\ Uploaded(pair, call.buffers.normal) = alone.work.normal
            /\ Uploaded(pair, call.buffers.indices) = alone.work.indices
            /\ Uploaded(pair, call.buffers.texCoord) = alone.work.texCoord
            /\ call.ld.drawable.present =>
                 /\ call.buffers.position # 0
                 /\ call.buffers.normal # 0
                 /\ call.buffers.indices # 0
                 /\ call.ld.drawable.hasTexCoord <=> call.buffers.texCoord # 0
                 /\ call.ld.drawable.texture = "tex" <=> call.texture # 0
            /\ call.texture # 0 =>
                 pair.gl.textures[call.texture] = call.ld.baseUrl \o call.ld.asset.json.imageUri
  /\ BufferIds(pair.calls["first"]) \cap BufferIds(pair.calls["second"]) = {}

\* two different textured models, loaded interleaved: the first call uploaded
\* its buffers first, the second call got its texture first
C16_Witness ==
  /\ pair.calls["first"].ld.drawable.present
  /\ pair.calls["second"].ld.drawable.present
  /\ pair.calls["first"].ld.asset # pair.calls["second"].ld.asset
  /\ pair.calls["first"].buffers.position < pair.calls["second"].buffers.position
  /\ pair.calls["second"].texture # 0
  /\ pair.calls["second"].texture < pair.calls["first"].texture

(***************************************************************************)
(* Properties of the menu handlers (checked under SpecUi)                  *)
(***************************************************************************)
ModelLoads == {"zip", "folder", "file", "sample"}

\* C13: when a load started from the UI (zip import, folder import, file
\* input, sample model) fails, the error is surfaced and the scene's
\* previously loaded Drawable is still the scene's current drawable.  Stated
\* for a failed load that had the scene to itself: no request was in flight
\* when it was issued and none was issued after it.
C13_FailedLoadKeepsPreviousDrawable ==
  \A i \in 1..Len(ui.calls) :
    (/\ ui.calls[i].handler \in ModelLoads
     /\ ui.calls[i].status = "failed"
     /\ ui.calls[i].rivals = {}
     /\ i = Len(ui.calls)) =>
      /\ ui.errorConsole # "none"
      /\ ui.scene = ui.calls[i].sceneBefore

\* C14: a Drawable produced by an older request is never applied to the scene
\* after a newer request (load, shape or reset) has been issued: whenever a
\* step puts a loaded model into the scene, it is the model of the most recent
\* request.
C14_StaleResultIsDiscarded ==
  [][(ui'.scene # ui.scene /\ ui'.scene.name = "gltf") =>
       ui'.scene.req = Len(ui'.calls)]_vars

(***************************************************************************)
(* Properties of the built-in shapes (checked under SpecGeom)              *)
(***************************************************************************)
TexturedGenerators == {"createDefaultTexturedCube", "createTexturedSphere"}

\* the drawable of the untextured generator a textured one falls back to
UntexturedVariant(fn) ==
  IF fn = "createDefaultTexturedCube" THEN CreateDefaultCube
  ELSE CreateSphere(1, DefaultBands, DefaultBands)

\* C20: the built-in cube and sphere loaders never fail because of the
\* texture.  Every finished call has produced a drawable with indexType
\* UNSIGNED_SHORT; the untextured generators return texture null; a textured
\* generator whose texture load failed resolves to exactly the drawable of
\* its untextured variant (texture null, same buffers; vertexCount 36 for
\* the cube), and one whose texture loaded has that geometry with the texture.
C20_ShapeLoadersFallBackToUntextured ==
  geo.pc = "done" =>
    /\ geo.result.present
    /\ geo.result.indexType = UNSIGNED_SHORT
    /\ geo.result.indexKind = "Uint16"
    /\ geo.fn \notin TexturedGenerators => geo.result.texture = "null"
    /\ geo.fn \in {"createDefaultCube", "createDefaultTexturedCube"} =>
         geo.result.vertexCount = 36
    /\ (geo.fn \in TexturedGenerators /\ geo.outcome = "error") =>
         geo.result = UntexturedVariant(geo.fn)
    /\ (geo.fn \in TexturedGenerators /\ geo.outcome = "ok") =>
         /\ geo.result.texture = "tex"
         /\ geo.result.indices = UntexturedVariant(geo.fn).indices
         /\ geo.result.position = UntexturedVariant(geo.fn).position

\* a textured cube whose texture failed to load has come back untextured
C20_Witness ==
  /\ geo.pc = "done"
  /\ geo.fn = "createDefaultTexturedCube"
  /\ geo.outcome = "error"
  /\ geo.result.present
  /\ geo.result.texture = "null"
  /\ geo.result.vertexCount = 36

(***************************************************************************)
(* Properties of the scene (checked under SpecScene)                       *)
(***************************************************************************)
Renders(queue) == Cardinality({i \in DOMAIN queue : queue[i] = "render"})

\* C21: the scene's drawable is the argument of the most recent loadGeometry
\* call (null before the first), whatever start, updateProgramInfo and
\* updateUserScript calls came in between, and getDrawable() returns it.
C21_DrawableIsLastLoaded ==
  /\ sc.drawable = (IF sc.loaded = Absent THEN 0 ELSE sc.loaded)
  /\ sc.last.op = "getDrawable" =>
       ~sc.last.threw /\ sc.last.result = sc.drawable

\* the part of C21 that is about the variable alone
DrawableFollowsLoadGeometry ==
  sc.drawable = (IF sc.loaded = Absent THEN 0 ELSE sc.loaded)

InstallOps == {"start", "updateUserScript", "loadGeometry"}

\* every update the render loop made on a script comes after an init of that
\* script with no other script installed in between
UpdatesFollowInit ==
  \A k \in DOMAIN sc.trace :
    sc.trace[k].kind = "update" =>
      \E i \in 1..(k - 1) :
        /\ sc.trace[i] = [kind |-> "init", script |-> sc.trace[k].script]
        /\ \A j \in (i + 1)..(k - 1) : sc.trace[j].kind # "updateUserScript"

\* a start, updateUserScript or loadGeometry call invokes init of the script
\* that is current after the call, returns normally and queues one render
InstallCallsInitAndSchedules ==
  (sc'.calls = sc.calls + 1 /\ sc'.last.op \in InstallOps) =>
    /\ sc'.trace = sc.trace \o << [kind |-> sc'.last.op, script |-> sc'.userScript],
                                  [kind |-> "init", script |-> sc'.userScript] >>
    /\ ~sc'.last.threw
    /\ Renders(sc'.raf) = Renders(sc.raf) + 1

\* C22: start, updateUserScript and loadGeometry invoke the current script's
\* init before any later update of that script by the render loop, and a
\* throwing init does not keep the render callback from being scheduled.
C22_InitPrecedesUpdate ==
  []UpdatesFollowInit /\ [][InstallCallsInitAndSchedules]_vars

\* a script whose init throws was installed and the render loop updated it
C22_Witness ==
  \E k \in DOMAIN sc.trace :
    /\ sc.trace[k].kind = "update"
    /\ InitThrows(sc.trace[k].script)

\* C24: a setShaders or updateShader call replaces the scene's program exactly
\* when the vertex shader compiled, the fragment shader compiled and the
\* program linked; otherwise updateProgramInfo is not called and the program
\* in use stays.
C24_OnlyBuiltProgramsReplace ==
  [][(sc'.calls = sc.calls + 1 /\ sc'.last.op \in {"setShaders", "updateShader"}) =>
       IF sc'.last.vsOk /\ sc'.last.fsOk /\ sc'.last.linkOk
       THEN /\ sc'.last.result # 0
            /\ sc'.programInfo = sc'.last.result
            /\ sc'.programInfo # sc.programInfo
            /\ Renders(sc'.raf) = Renders(sc.raf) + 1
       ELSE /\ sc'.last.result = 0
            /\ sc'.programInfo = sc.programInfo
            /\ sc'.raf = sc.raf
            /\ sc'.errorConsole # "none"]_vars

\* a program is in use and a later build failed at the link step
C24_Witness ==
  /\ sc.last.op \in {"setShaders", "updateShader"}
  /\ sc.last.vsOk /\ sc.last.fsOk /\ ~sc.last.linkOk
  /\ sc.programInfo # 0

\* C25: at most one render callback is pending in requestAnimationFrame.
C25_OneRenderPending == Renders(sc.raf) <= 1

(***************************************************************************)
(* Properties of the page script (checked under SpecMain)                  *)
(***************************************************************************)
\* at most one timeout is pending, none with Auto Refresh off, and a run
\* started by the timeout comes a full delay after the latest editor change
TimerDiscipline ==
  /\ Cardinality(mn.timers) <= 1
  /\ ~mn.isAutoRefreshEnabled => mn.timers = {}
  /\ (mn.lastRun.by = "timer" /\ mn.lastRun.lastChange # Absent) =>
       mn.lastRun.at - mn.lastRun.lastChange >= AutoRefreshDelay

\* an editor change enables the Run button and, with Auto Refresh on, leaves
\* exactly one timeout pending, newly armed for a full delay from now
ChangeRearms ==
  mn'.changes = mn.changes + 1 =>
    /\ ~mn'.reloadDisabled
    /\ IF mn.isAutoRefreshEnabled
       THEN /\ \E t \in mn'.timers : mn'.timers = {t} /\ t.due = mn.now + AutoRefreshDelay
            /\ mn'.timers \cap mn.timers = {}
       ELSE mn'.timers = {}

\* runUpdates leaves the Run button disabled
RunDisables == mn'.runs = mn.runs + 1 => mn'.reloadDisabled

\* C23: with Auto Refresh on, every editor change cancels the pending timer
\* and arms a new one, so at most one is pending and the timer's runUpdates
\* comes only a full delay after the latest change; with Auto Refresh off none
\* is pending.  Any change enables the Run button, runUpdates disables it.
C23_AutoRefreshAndRunButton ==
  []TimerDiscipline /\ [][ChangeRearms /\ RunDisables]_vars

\* two changes were made with Auto Refresh on, and the timeout armed by the
\* second one has run runUpdates
C23_Witness ==
  /\ mn.changes >= 2
  /\ mn.lastRun.by = "timer"
  /\ mn.lastRun.lastChange > 0
  /\ mn.reloadDisabled

(***************************************************************************)
(* Properties of the import handlers (checked under SpecUi)                *)
(***************************************************************************)
\* the import flows under way: a picker or file dialog is open, or the chosen
\* archive or folder is being loaded
ImportFlows ==
  {i \in DOMAIN ui.calls :
     /\ ui.calls[i].handler \in {"zip", "folder", "file"}
     /\ ui.calls[i].status \in {"picking", "input", "loading"}}

\* pickerActive is set only while a handler that set it is still running
PickerReleasedOnExit ==
  ui.pickerActive =>
    \E i \in ImportFlows : ui.calls[i].handler \in {"zip", "folder"}

\* C26: at most one import flow (zip, folder or the file-input fallback) is in
\* progress at a time, and pickerActive is reset on every exit of the handler
\* that set it.
C26_OneImportFlowAtATime ==
  /\ Cardinality(ImportFlows) <= 1
  /\ PickerReleasedOnExit

(***************************************************************************)
(* Properties of manifest selection at import (checked under Spec)         *)
(***************************************************************************)
\* a zip import: a map that processFolderHandle did not put in order
IsZipImport == ld.kind = "map" /\ ld.selected = <<>> /\ ld.pc # "idle"

\* the manifest parseGltf takes from a map whose keys were inserted in this
\* order (<<>>: none)
ManifestUnderOrder(keys) == FindMainFile(keys)

\* C27: the manifest a zip import parses is the same under every order in
\* which the archive's per-entry extraction promises can resolve.
C27_ZipManifestIgnoresCompletionOrder ==
  IsZipImport =>
    \A keys \in Perms({ld.keys[i] : i \in DOMAIN ld.keys}) :
      ManifestUnderOrder(keys) = ld.main

\* C28: in a folder import, the manifest parseGltf parses is the path
\* processFolderHandle selected.
C28_FolderParsesSelectedManifest ==
  (ld.kind = "map" /\ ld.selected # <<>>) => ld.main = ld.selected

(***************************************************************************)
(* Properties of the shapes menu (checked under SpecUi)                    *)
(***************************************************************************)
\* nothing the user asked for is still under way
AllSettled ==
  \A i \in DOMAIN ui.calls :
    ui.calls[i].status \notin {"picking", "input", "loading", "texture"}

\* what a shape request should leave in the scene: the shape asked for, with
\* the texture when Textured was checked (without it when the texture failed
\* to load)
ShapeNamesFor(call) ==
  IF ~call.textured THEN {call.handler}
  ELSE IF call.handler = "cube" THEN {"textured cube", "cube"}
  ELSE {"textured sphere", "sphere"}

LatestShapeIsShown ==
  (/\ ui.calls # <<>>
   /\ AllSettled
   /\ ui.calls[Len(ui.calls)].handler \in {"cube", "sphere"}) =>
     /\ ui.scene.req = Len(ui.calls)
     /\ ui.scene.name \in ShapeNamesFor(ui.calls[Len(ui.calls)])

\* a change of the Textured checkbox while an imported model is shown leaves
\* the scene alone and starts nothing
ToggleLeavesModelsAlone ==
  (ui'.textured # ui.textured /\ ui.scene.name = "gltf") =>
    ui'.scene = ui.scene /\ ui'.calls = ui.calls

\* C29: after any Cube/Sphere clicks and Textured changes, once every pending
\* texture load has settled, the scene shows the shape and textured state of
\* the most recent request, and the Textured toggle reloads a shape only while
\* a menu shape, not an imported model, is the current one.
C29_LatestShapeRequestWins ==
  []LatestShapeIsShown /\ [][ToggleLeavesModelsAlone]_vars

(***************************************************************************)
(* Properties of the editor tabs (checked under SpecEditors)               *)
(***************************************************************************)
TabsOf(fileId) == {i \in DOMAIN ed.tabs : ed.tabs[i].fileId = fileId}

\* each file has at most one tab with its editor, and activeEditorId is null
\* or the id of an open editor
OneTabPerFile ==
  /\ \A fileId \in FileIds : Cardinality(TabsOf(fileId)) <= 1
  /\ ed.activeEditorId = "null"
       \/ \E i \in DOMAIN ed.openEditors : ed.openEditors[i].id = ed.activeEditorId

\* the tab that becomes active when the k-th tab of the bar is closed while
\* active: its left neighbour, else its right neighbour, else none
NeighbourOf(tabs, k) ==
  IF k > 1 THEN tabs[k - 1].fileId
  ELSE IF Len(tabs) > 1 THEN tabs[2].fileId
  ELSE "null"

CloseActivatesNeighbour ==
  (/\ ed'.last.op = "close"
   /\ ed'.tabs # ed.tabs
   /\ ed.activeEditorId = ed'.last.fileId) =>
     \E k \in DOMAIN ed.tabs :
       /\ ed.tabs[k].fileId = ed'.last.fileId
       /\ ed'.activeEditorId = NeighbourOf(ed.tabs, k)

\* C30: under any interleaving of openEditor, switchToTab and closeEditor each
\* file id has at most one tab and one editor instance, activeEditorId is null
\* or the id of an open editor, and closing the active tab activates its left
\* neighbour, else its right neighbour, else leaves no tab active.
C30_TabsStayConsistent ==
  []OneTabPerFile /\ [][CloseActivatesNeighbour]_vars

=============================================================================
